---- MODULE Spec2Model ----
(***************************************************************************)
(* The in-memory event bus of nimbus-git (crates/nimbus-events/src/lib.rs) *)
(* with the event types of crates/nimbus-types/src/events.rs: the bounded  *)
(* ingestion queue, the consumer loop and its per-envelope fan-out with a  *)
(* shared deadline, the handler map with its EventType index, and the      *)
(* metrics counters.                                                       *)
(*                                                                         *)
(* Strings that are only compared are TLA+ strings; branch names and glob  *)
(* patterns, which glob_match cuts and searches, are sequences of          *)
(* one-character strings.  Option values are sequences of length 0 or 1.   *)
(***************************************************************************)
EXTENDS Integers, Sequences, FiniteSets, TLC

\* ------------------------------------------------------------------ bounds
\* buffer_size given to InMemoryEventBus::new in Spec
Capacity == 2
\* buffer_size given to InMemoryEventBus::new in SpecReg
RegCapacity == 1
\* publish calls made in a behaviour of Spec, and the envelope ids there are
MaxPublish == 3
\* subscribe and unsubscribe calls made in a behaviour of Spec
BusRegCalls == 1
\* publish calls made in a behaviour of SpecReg
RegPublish == 2
\* subscribe and unsubscribe calls made in a behaviour of SpecReg
MaxRegCalls == 2
\* subscribe and unsubscribe calls made in a behaviour of SpecIdem
IdemRegCalls == 3
\* longest branch pattern of the glob handlers
MaxPatternLen == 3
\* longest branch name of the glob events
MaxTextLen == 2

\* ------------------------------------------------------- event model
EventTypes == {"Push", "PullRequest", "Tag", "Repository", "Review", "CiRun"}

Variants ==
    {"Push", "PullRequestOpened", "PullRequestMerged", "PullRequestClosed",
     "TagCreated", "RepositoryCreated", "RepositoryDeleted", "CiRunStarted",
     "CiRunCompleted", "ReviewRequested", "ReviewSubmitted",
     "AiAnalysisRequested", "AiAnalysisCompleted"}

None == <<>>
Some(x) == <<x>>

\* the value of a field that a variant does not have
AbsentStr == "<absent>"
AbsentBranch == <<"<absent>">>

\* An Event value: the variant tag and the fields the bus reads.
\* RepositoryCreated's repository field is a Repository struct, of which the
\* bus reads the name: it is kept in the field repository_struct, so that
\* the field repository holds a String in every variant that has one.
MkEvent(v, repo, branch, from, to) ==
    [variant |-> v,
     repository |-> IF v = "RepositoryCreated" THEN AbsentStr ELSE repo,
     repository_struct |-> [name |-> IF v = "RepositoryCreated" THEN repo
                                     ELSE AbsentStr],
     branch |-> IF v \in {"Push", "CiRunStarted"} THEN branch ELSE AbsentBranch,
     from_branch |-> IF v = "PullRequestOpened" THEN from ELSE AbsentBranch,
     to_branch |-> IF v = "PullRequestOpened" THEN to ELSE AbsentBranch]

BranchMain == <<"m", "a", "i", "n">>

\* a classification that files the AiAnalysis variants under CiRun
EventTypeAiAsCiRun(event) ==
    CASE event.variant = "Push" -> "Push"
      [] event.variant \in {"PullRequestOpened", "PullRequestMerged",
                            "PullRequestClosed"} -> "PullRequest"
      [] event.variant = "TagCreated" -> "Tag"
      [] event.variant \in {"RepositoryCreated", "RepositoryDeleted"} -> "Repository"
      [] event.variant \in {"ReviewRequested", "ReviewSubmitted"} -> "Review"
      [] OTHER -> "CiRun"

event_type(event) ==
    CASE event.variant = "Push" -> "Push"
      [] event.variant \in {"PullRequestOpened", "PullRequestMerged",
                            "PullRequestClosed"} -> "PullRequest"
      [] event.variant = "TagCreated" -> "Tag"
      [] event.variant \in {"RepositoryCreated", "RepositoryDeleted"} -> "Repository"
      [] event.variant \in {"ReviewRequested", "ReviewSubmitted"} -> "Review"
      [] event.variant \in {"CiRunStarted", "CiRunCompleted"} -> "CiRun"
      [] OTHER -> "Push"

\* an extract_repository that reads the flat repository field only
ExtractRepositoryFlat(event) == Some(event.repository)

extract_repository(event) ==
    IF event.variant = "RepositoryCreated"
    THEN Some(event.repository_struct.name)
    ELSE Some(event.repository)

\* an extract_branch that takes the target branch of a pull request
ExtractBranchTarget(event) ==
    CASE event.variant \in {"Push", "CiRunStarted"} -> Some(event.branch)
      [] event.variant = "PullRequestOpened" -> Some(event.to_branch)
      [] OTHER -> None

extract_branch(event) ==
    CASE event.variant \in {"Push", "CiRunStarted"} -> Some(event.branch)
      [] event.variant = "PullRequestOpened" -> Some(event.from_branch)
      [] OTHER -> None

\* ------------------------------------------------------- glob matching
Star == <<"*">>

StartsWith(s, p) ==
    Len(p) <= Len(s) /\ SubSeq(s, 1, Len(p)) = p

EndsWith(s, p) ==
    Len(p) <= Len(s) /\ SubSeq(s, Len(s) - Len(p) + 1, Len(s)) = p

Contains(s, p) ==
    \E i \in 1..(Len(s) - Len(p) + 1) : SubSeq(s, i, i + Len(p) - 1) = p

\* a matcher that tries the leading "*" before the "*" at both ends
GlobMatchSuffixFirst(pattern, text) ==
    IF pattern = Star THEN TRUE
    ELSE IF StartsWith(pattern, Star)
    THEN EndsWith(text, SubSeq(pattern, 2, Len(pattern)))
    ELSE IF EndsWith(pattern, Star)
    THEN StartsWith(text, SubSeq(pattern, 1, Len(pattern) - 1))
    ELSE pattern = text

glob_match(pattern, text) ==
    IF pattern = Star THEN TRUE
    ELSE IF StartsWith(pattern, Star) /\ EndsWith(pattern, Star)
    THEN Contains(text, SubSeq(pattern, 2, Len(pattern) - 1))
    ELSE IF StartsWith(pattern, Star)
    THEN EndsWith(text, SubSeq(pattern, 2, Len(pattern)))
    ELSE IF EndsWith(pattern, Star)
    THEN StartsWith(text, SubSeq(pattern, 1, Len(pattern) - 1))
    ELSE pattern = text

\* ------------------------------------------------------- filter matcher
MkFilter(types, repos, branches) ==
    [event_types |-> types, repositories |-> repos, branches |-> branches]

TypeCheck(filter, envelope) ==
    filter.event_types = {} \/ event_type(envelope.event) \in filter.event_types

RepositoryCheck(filter, envelope) ==
    \/ filter.repositories = {}
    \/ LET repo_name == extract_repository(envelope.event)
       IN  repo_name = None \/ repo_name[1] \in filter.repositories

\* a branch check that wants every pattern of the filter to match
BranchCheckAllPatterns(filter, envelope) ==
    \/ filter.branches = {}
    \/ LET branch == extract_branch(envelope.event)
       IN  branch = None
           \/ \A pattern \in filter.branches : glob_match(pattern, branch[1])

\* a branch check that rejects an event without a branch
BranchCheckRejectsAbsent(filter, envelope) ==
    \/ filter.branches = {}
    \/ LET branch == extract_branch(envelope.event)
       IN  /\ branch # None
           /\ \E pattern \in filter.branches : glob_match(pattern, branch[1])

BranchCheck(filter, envelope) ==
    \/ filter.branches = {}
    \/ LET branch == extract_branch(envelope.event)
       IN  branch = None
           \/ \E pattern \in filter.branches : glob_match(pattern, branch[1])

\* a matcher that is content with one of the repository and branch checks
MatchesFilterEitherCheck(filter, envelope) ==
    /\ TypeCheck(filter, envelope)
    /\ RepositoryCheck(filter, envelope) \/ BranchCheck(filter, envelope)

matches_filter(filter, envelope) ==
    /\ TypeCheck(filter, envelope)
    /\ RepositoryCheck(filter, envelope)
    /\ BranchCheck(filter, envelope)

\* ------------------------------------------------------- handlers
\* A handler object (a Box<dyn EventHandler>): the value its filter() returns
\* and what the plugin's code does: "ok": handle returns Ok(()); "err": handle
\* returns Err; "panic": handle panics; "hang": handle never returns;
\* "fpanic": filter() panics (the filter field is then never read).
\* "later" is the value filter() returns once the plugin has changed its mind;
\* it is the same value for a plugin whose filter is stable.
MkHandler(id, filter, beh) ==
    [hid |-> id, filter |-> filter, beh |-> beh, later |-> filter]

\* CountingHandler of the tests, restricted to Push events
HPush == MkHandler("hPush", MkFilter({"Push"}, {}, {}), "ok")
\* CountingHandler of the tests, restricted to Tag events
HTag == MkHandler("hTag", MkFilter({"Tag"}, {}, {}), "ok")
\* FailingHandler of the tests: the empty filter, handle always fails
HFail == MkHandler("hFail", MkFilter({}, {}, {}), "err")

HandlerObjs == {HPush, HTag, HFail}

\* a handler whose handle panics
HPanic == MkHandler("hPanic", MkFilter({}, {}, {}), "panic")
\* a handler whose handle never returns
HHang == MkHandler("hHang", MkFilter({}, {}, {}), "hang")
\* a handler whose filter() panics
HBadFilter == MkHandler("hBadFilter", MkFilter({}, {}, {}), "fpanic")

\* the misbehaving plugins, with a well-behaved one
FaultObjs == {HPush, HFail, HPanic, HHang, HBadFilter}

\* branch names and branch patterns of the filtering tests, "feature/"
\* shortened to "f/"
BranchFeatureAuth == <<"f", "/", "a">>
PatternFeature == <<"f", "/", "*">>

\* CountingHandler of the tests with the empty filter
HAny == MkHandler("hAny", MkFilter({}, {}, {}), "ok")
\* CountingHandler of test_repository_filtering
HRepo == MkHandler("hRepo", MkFilter({}, {"important-repo"}, {}), "ok")
\* CountingHandler of test_branch_filtering
HMain == MkHandler("hMain", MkFilter({}, {}, {BranchMain}), "ok")
\* CountingHandler of test_glob_branch_filtering
HFeature == MkHandler("hFeature", MkFilter({}, {}, {PatternFeature}), "ok")
\* a CountingHandler with two branch patterns
HMainOrFeature ==
    MkHandler("hMainOrFeature", MkFilter({}, {}, {BranchMain, PatternFeature}), "ok")

\* a CountingHandler with a repository and a branch pattern
HRepoMain ==
    MkHandler("hRepoMain", MkFilter({}, {"important-repo"}, {BranchMain}), "ok")

FilterObjs == {HAny, HPush, HRepo, HMain, HFeature, HMainOrFeature, HRepoMain}

FilterRepos == {"important-repo", "other-repo"}

FilterBranches == {BranchMain, BranchFeatureAuth}

\* events of all thirteen variants, over two repositories and two branches
FilterEvents ==
    {MkEvent(v, repo, branch, from, to) :
        v \in Variants, repo \in FilterRepos, branch \in FilterBranches,
        from \in FilterBranches, to \in FilterBranches}

\* the strings of at most k characters of the glob alphabet
GlobChars == {"*", "a", "b"}

GlobStrings(k) == UNION {[1..m -> GlobChars] : m \in 0..k}

\* CountingHandlers with one branch pattern each
GlobObjs ==
    {MkHandler("hGlob", MkFilter({}, {}, {pattern}), "ok") :
        pattern \in GlobStrings(MaxPatternLen)}

\* Push events on every branch name
GlobEvents ==
    {MkEvent("Push", "repo", branch, AbsentBranch, AbsentBranch) :
        branch \in GlobStrings(MaxTextLen)}

\* a CountingHandler whose filter() returns {Push} at first and {Tag} later
HFlip ==
    [MkHandler("hFlip", MkFilter({"Push"}, {}, {}), "ok")
        EXCEPT !.later = MkFilter({"Tag"}, {}, {})]

\* CountingHandlers with every combination of a type set, a repository set
\* and a branch pattern set
MatchTypeSets == {{}, {"Push"}, {"PullRequest", "CiRun"}}

MatchRepoSets == {{}, {"important-repo"}}

MatchBranchSets == {{}, {BranchMain}, {BranchMain, PatternFeature}}

MatchObjs ==
    {MkHandler("hMatch", MkFilter(types, repos, branches), "ok") :
        types \in MatchTypeSets, repos \in MatchRepoSets,
        branches \in MatchBranchSets}

\* handler.filter() unwinds instead of returning a filter
FilterPanics(h) == h.beh = "fpanic"

Names == {"a", "b"}

NoHandler == [hid |-> "none"]

\* the events the publishers of this model send
PubEvents ==
    {MkEvent("Push", "repo", BranchMain, AbsentBranch, AbsentBranch),
     MkEvent("TagCreated", "repo", AbsentBranch, AbsentBranch, AbsentBranch)}

EnvIds == 1..MaxPublish

\* EventPriority, with the discriminants the derived Ord compares
EventPriority == [Low |-> 0, Normal |-> 1, High |-> 2, Critical |-> 3]

MkMetadata(target_plugins, priority, persistent) ==
    [target_plugins |-> target_plugins, priority |-> priority,
     persistent |-> persistent]

\* the metadata the tests give every envelope
TestMetadata == MkMetadata(<<>>, EventPriority.Normal, FALSE)

\* metadata that names no target, of the lowest priority, and metadata that
\* names a target plugin, of the highest priority, and asks for persistence
MetaLow == MkMetadata(<<>>, EventPriority.Low, FALSE)

MetaTargeted == MkMetadata(<<"b">>, EventPriority.Critical, TRUE)

MetaObjs == {MetaLow, MetaTargeted}

MkEnvelope(id, event, metadata) ==
    [id |-> id, event |-> event, metadata |-> metadata]

NoEnvelope == [id |-> 0]

\* the consumer loop the first start() call spawns
Loops == {"loop"}

\* the consumer loop a second start() call on the same bus spawns
SecondLoops == {"loop2"}

AllLoops == Loops \cup SecondLoops

\* ------------------------------------------------------------------ state
VARIABLES
    handlers,       \* DashMap name -> handler; NoHandler where there is no entry
    subscriptions,  \* EventType -> set of names (no entry = the empty set)
    capacity,       \* the bounded channel's capacity
    queue,          \* the bounded channel's buffer, oldest envelope first
    closed,         \* the channel has been closed
    sent,           \* the envelope each publish call was given
    pub,            \* each publish call: "idle", "suspended", "ok" or "err"
    cons,           \* each consumer loop: pc, the envelope in process_event,
                    \*   the candidate names not yet visited (todo), the
                    \*   registry version when the envelope was dequeued
                    \*   (reg0), the unvisited candidates subscribed anew since
                    \*   the names were read (late)
    tasks,          \* the spawned handler tasks: envelope id, name, handler, st
    regops,         \* subscribe and unsubscribe calls between their two steps
    nreg,           \* number of subscribe and unsubscribe calls made
    events_received, events_processed, events_timeout,   \* per EventType
    handler_success, handler_failure,                    \* per handler name
    \* history, read by the properties only
    invoked,        \* per envelope id and name: number of handle invocations
    enqOrder,       \* envelope ids in the order they entered the queue
    deqOrder,       \* envelope ids in the order recv returned them
    outcome,        \* per envelope id: "none", "processed" or "timeout"
    clean,          \* per name: the last call on it was a subscribe that has
                    \*   returned and overlapped no other call on the name
    gone,           \* per name: an unsubscribe of it has returned and no
                    \*   subscribe of it was running then or was called since
    subscribed,     \* per name: the handler given to the latest subscribe
                    \*   call on it, NoHandler before the first
    unsubs,         \* per name: the unsubscribe calls on it that have returned
                    \*   since the latest subscribe call on it
    pubGone         \* per envelope id: the names that were unsubscribed, with
                    \*   no subscribe since, when its publish call was made

metrics == <<events_received, events_processed, events_timeout,
             handler_success, handler_failure>>

registry == <<handlers, subscriptions, regops, nreg, clean, gone, subscribed,
             unsubs>>

channel == <<capacity, queue, closed, sent, pub, enqOrder, pubGone>>

vars == <<handlers, subscriptions, capacity, queue, closed, sent, pub, cons, tasks,
          regops, nreg, events_received, events_processed, events_timeout,
          handler_success, handler_failure, invoked, enqOrder, deqOrder,
          outcome, clean, gone, subscribed, unsubs, pubGone>>

InQueue(id) == \E i \in 1..Len(queue) : queue[i].id = id

IdleLoop ==
    [pc |-> "unstarted", env |-> NoEnvelope, todo |-> {}, reg0 |-> 0, late |-> {}]

\* number of registry steps taken so far: every call is two steps
RegVersion == 2 * nreg - Cardinality(regops)

\* InMemoryEventBus::new(buffer_size)
New(buffer_size) ==
    /\ capacity = buffer_size
    /\ handlers = [n \in Names |-> NoHandler]
    /\ subscriptions = [t \in EventTypes |-> {}]
    /\ queue = <<>>
    /\ closed = FALSE
    /\ sent = [i \in EnvIds |-> NoEnvelope]
    /\ pub = [i \in EnvIds |-> "idle"]
    /\ cons = [l \in AllLoops |-> IdleLoop]
    /\ tasks = {}
    /\ regops = {}
    /\ nreg = 0
    /\ events_received = [t \in EventTypes |-> 0]
    /\ events_processed = [t \in EventTypes |-> 0]
    /\ events_timeout = [t \in EventTypes |-> 0]
    /\ handler_success = [n \in Names |-> 0]
    /\ handler_failure = [n \in Names |-> 0]
    /\ invoked = [i \in EnvIds |-> [n \in Names |-> 0]]
    /\ enqOrder = <<>>
    /\ deqOrder = <<>>
    /\ outcome = [i \in EnvIds |-> "none"]
    /\ clean = [n \in Names |-> FALSE]
    /\ gone = [n \in Names |-> FALSE]
    /\ subscribed = [n \in Names |-> NoHandler]
    /\ unsubs = [n \in Names |-> 0]
    /\ pubGone = [i \in EnvIds |-> {}]

Init == New(Capacity)

InitReg == New(RegCapacity)

\* ------------------------------------------------------------------ publish
\* TrySend with an overflow policy: a full buffer drops its oldest envelope
TrySendDropOldest(q, cap, isClosed, envelope) ==
    IF isClosed THEN [st |-> "err", q |-> q]
    ELSE IF Len(q) < cap THEN [st |-> "ok", q |-> Append(q, envelope)]
    ELSE [st |-> "ok", q |-> Append(Tail(q), envelope)]

\* TrySend that reports success on a full buffer without enqueuing
TrySendDropNewest(q, cap, isClosed, envelope) ==
    IF isClosed THEN [st |-> "err", q |-> q]
    ELSE IF Len(q) < cap THEN [st |-> "ok", q |-> Append(q, envelope)]
    ELSE [st |-> "ok", q |-> q]

\* TrySend that does not look at the closed flag
TrySendIgnoresClosed(q, cap, isClosed, envelope) ==
    IF Len(q) < cap THEN [st |-> "ok", q |-> Append(q, envelope)]
    ELSE [st |-> "suspended", q |-> q]

\* async_channel's try_send on the bounded buffer: a closed channel refuses,
\* a full one makes the sender wait, otherwise the envelope goes to the back.
\* a send that also waits until no handler task is running
TrySendWaitsForHandlers(q, cap, isClosed, envelope) ==
    IF isClosed THEN [st |-> "err", q |-> q]
    ELSE IF Len(q) < cap /\ \A t \in tasks : t.st = "done"
    THEN [st |-> "ok", q |-> Append(q, envelope)]
    ELSE [st |-> "suspended", q |-> q]

TrySend(q, cap, isClosed, envelope) ==
    IF isClosed THEN [st |-> "err", q |-> q]
    ELSE IF Len(q) < cap THEN [st |-> "ok", q |-> Append(q, envelope)]
    ELSE [st |-> "suspended", q |-> q]

\* publish(envelope): the call and its first try_send
PublishEnvelope(event, metadata, maxCalls) ==
    \E id \in 1..maxCalls :
        /\ pub[id] = "idle"
        /\ \A j \in EnvIds : j < id => pub[j] # "idle"
        /\ LET envelope == MkEnvelope(id, event, metadata)
               r == TrySend(queue, capacity, closed, envelope)
           IN  /\ sent' = [sent EXCEPT ![id] = envelope]
               /\ pub' = [pub EXCEPT ![id] = r.st]
               /\ queue' = r.q
               /\ enqOrder' = IF r.st = "ok" THEN Append(enqOrder, id) ELSE enqOrder
        /\ pubGone' = [pubGone EXCEPT ![id] = {n \in Names : gone[n]}]
        /\ UNCHANGED <<capacity, closed, cons, tasks, registry, metrics,
                       invoked, deqOrder, outcome>>

\* publish of an envelope built as the tests build theirs
PublishCall(event, maxCalls) == PublishEnvelope(event, TestMetadata, maxCalls)

\* a suspended send is woken (a slot was freed, or the channel was closed)
\* and tries again
PublishResume(id) ==
    /\ pub[id] = "suspended"
    /\ LET r == TrySend(queue, capacity, closed, sent[id])
       IN  /\ r.st # "suspended"
           /\ pub' = [pub EXCEPT ![id] = r.st]
           /\ queue' = r.q
           /\ enqOrder' = IF r.st = "ok" THEN Append(enqOrder, id) ELSE enqOrder
    /\ UNCHANGED <<capacity, closed, sent, pubGone, cons, tasks, registry,
                   metrics, invoked, deqOrder, outcome>>

\* the channel is closed (async_channel's close, or its last sender or
\* receiver going away); the loop's Err arm is the code's answer to it
Close ==
    /\ ~closed
    /\ closed' = TRUE
    /\ UNCHANGED <<capacity, queue, sent, pub, enqOrder, pubGone, cons, tasks,
                   registry, metrics, invoked, deqOrder, outcome>>

\* ------------------------------------------------------------------ registry
\* subscribe without its branch for specific event types
IndexTypesForgetsSpecific(filter) ==
    IF filter.event_types = {} THEN EventTypes ELSE {}

\* a subscribe that takes the empty type set for "no type"
IndexTypesEmptyIndexesNothing(filter) == filter.event_types

\* the EventTypes subscribe indexes a filter under
IndexTypes(filter) ==
    IF filter.event_types = {} THEN EventTypes ELSE filter.event_types

OpsOn(n) == {o \in regops : o.name = n}

\* a subscribe call on n begins: every loop that has read the candidate names
\* of its envelope and has not visited n yet notes that n's handler is a late
\* one for that envelope
LateSubscribe(n) ==
    [l \in AllLoops |->
        IF cons[l].pc = "spawn" /\ n \in cons[l].todo
        THEN [cons[l] EXCEPT !.late = @ \cup {n}]
        ELSE cons[l]]

\* a subscribe that keeps the handler already registered under the name
SubscribeCallKeepsExisting(n, h, maxCalls) ==
    /\ nreg < maxCalls
    /\ nreg' = nreg + 1
    /\ handlers' = IF handlers[n] = NoHandler THEN [handlers EXCEPT ![n] = h]
                   ELSE handlers
    /\ regops' = {IF o.name = n THEN [o EXCEPT !.race = TRUE] ELSE o : o \in regops}
                 \cup IF FilterPanics(h) THEN {}
                      ELSE {[op |-> nreg + 1, kind |-> "sub", name |-> n, h |-> h,
                             race |-> OpsOn(n) # {}]}
    /\ clean' = [clean EXCEPT ![n] = FALSE]
    /\ gone' = [gone EXCEPT ![n] = FALSE]
    /\ subscribed' = [subscribed EXCEPT ![n] = h]
    /\ unsubs' = [unsubs EXCEPT ![n] = 0]
    /\ pubGone' = [i \in EnvIds |-> pubGone[i] \ {n}]
    /\ cons' = LateSubscribe(n)
    /\ UNCHANGED <<subscriptions, capacity, queue, closed, sent, pub, enqOrder,
                   tasks, metrics, invoked, deqOrder, outcome>>

\* subscribe(name, handler), up to the wait for the index's write lock:
\* handlers.insert, then handler.filter(); if filter() panics the call unwinds
\* there, with the handler in the map and the index untouched
SubscribeCall(n, h, maxCalls) ==
    /\ nreg < maxCalls
    /\ nreg' = nreg + 1
    /\ handlers' = [handlers EXCEPT ![n] = h]
    /\ regops' = {IF o.name = n THEN [o EXCEPT !.race = TRUE] ELSE o : o \in regops}
                 \cup IF FilterPanics(h) THEN {}
                      ELSE {[op |-> nreg + 1, kind |-> "sub", name |-> n, h |-> h,
                             race |-> OpsOn(n) # {}]}
    /\ clean' = [clean EXCEPT ![n] = FALSE]
    /\ gone' = [gone EXCEPT ![n] = FALSE]
    /\ subscribed' = [subscribed EXCEPT ![n] = h]
    /\ unsubs' = [unsubs EXCEPT ![n] = 0]
    /\ pubGone' = [i \in EnvIds |-> pubGone[i] \ {n}]
    /\ cons' = LateSubscribe(n)
    /\ UNCHANGED <<subscriptions, capacity, queue, closed, sent, pub, enqOrder,
                   tasks, metrics, invoked, deqOrder, outcome>>

\* a subscribe whose write lock cannot be had while a loop is between reading
\* the names of an envelope and the end of the wait for its handlers
SubscribeIndexWaitsForDispatch(o) ==
    /\ \A l \in DOMAIN cons : cons[l].pc # "spawn"
    /\ o \in regops
    /\ o.kind = "sub"
    /\ subscriptions' = [t \in EventTypes |->
                           IF t \in IndexTypes(o.h.filter)
                           THEN subscriptions[t] \cup {o.name}
                           ELSE subscriptions[t]]
    /\ regops' = regops \ {o}
    /\ clean' = [clean EXCEPT ![o.name] = ~o.race]
    /\ UNCHANGED <<handlers, nreg, gone, subscribed, unsubs, channel, cons, tasks,
                   metrics, invoked, deqOrder, outcome>>

\* a subscribe that takes effect for the envelopes published after it only:
\* with an envelope in the queue it indexes nothing
SubscribeIndexFutureOnly(o) ==
    /\ o \in regops
    /\ o.kind = "sub"
    /\ subscriptions' = [t \in EventTypes |->
                           IF t \in IndexTypes(o.h.filter) /\ queue = <<>>
                           THEN subscriptions[t] \cup {o.name}
                           ELSE subscriptions[t]]
    /\ regops' = regops \ {o}
    /\ clean' = [clean EXCEPT ![o.name] = ~o.race]
    /\ UNCHANGED <<handlers, nreg, gone, subscribed, unsubs, channel, cons, tasks,
                   metrics, invoked, deqOrder, outcome>>

\* subscribe, under the write lock: the name enters the index entry of every
\* EventType of the handler's filter
SubscribeIndex(o) ==
    /\ o \in regops
    /\ o.kind = "sub"
    /\ subscriptions' = [t \in EventTypes |->
                           IF t \in IndexTypes(o.h.filter)
                           THEN subscriptions[t] \cup {o.name}
                           ELSE subscriptions[t]]
    /\ regops' = regops \ {o}
    /\ clean' = [clean EXCEPT ![o.name] = ~o.race]
    /\ UNCHANGED <<handlers, nreg, gone, subscribed, unsubs, channel, cons, tasks,
                   metrics, invoked, deqOrder, outcome>>

\* an unsubscribe that returns Ok without removing anything
UnsubscribeCallRemovesNothing(n, maxCalls) ==
    /\ nreg < maxCalls
    /\ nreg' = nreg + 1
    /\ regops' = {IF o.name = n THEN [o EXCEPT !.race = TRUE] ELSE o : o \in regops}
    /\ clean' = [clean EXCEPT ![n] = FALSE]
    /\ gone' = [gone EXCEPT ![n] = (OpsOn(n) = {})]
    /\ UNCHANGED <<handlers, subscriptions, subscribed, unsubs, channel, cons, tasks,
                   metrics, invoked, deqOrder, outcome>>

\* an unsubscribe that empties the handler map
UnsubscribeCallClearsMap(n, maxCalls) ==
    /\ nreg < maxCalls
    /\ nreg' = nreg + 1
    /\ handlers' = [m \in Names |-> NoHandler]
    /\ regops' = {IF o.name = n THEN [o EXCEPT !.race = TRUE] ELSE o : o \in regops}
                 \cup {[op |-> nreg + 1, kind |-> "unsub", name |-> n,
                        h |-> NoHandler, race |-> OpsOn(n) # {}]}
    /\ clean' = [clean EXCEPT ![n] = FALSE]
    /\ UNCHANGED <<subscriptions, gone, subscribed, unsubs, channel, cons, tasks,
                   metrics, invoked, deqOrder, outcome>>

\* unsubscribe(name), up to the wait for the index's write lock:
\* handlers.remove
UnsubscribeCall(n, maxCalls) ==
    /\ nreg < maxCalls
    /\ nreg' = nreg + 1
    /\ handlers' = [handlers EXCEPT ![n] = NoHandler]
    /\ regops' = {IF o.name = n THEN [o EXCEPT !.race = TRUE] ELSE o : o \in regops}
                 \cup {[op |-> nreg + 1, kind |-> "unsub", name |-> n,
                        h |-> NoHandler, race |-> OpsOn(n) # {}]}
    /\ clean' = [clean EXCEPT ![n] = FALSE]
    /\ UNCHANGED <<subscriptions, gone, subscribed, unsubs, channel, cons, tasks,
                   metrics, invoked, deqOrder, outcome>>

\* a sweep that empties every index entry
UnsubscribeSweepClearsIndex(o) ==
    /\ o \in regops
    /\ o.kind = "unsub"
    /\ subscriptions' = [t \in EventTypes |-> {}]
    /\ regops' = regops \ {o}
    /\ gone' = [gone EXCEPT ![o.name] =
                  \A x \in regops : x.name = o.name => x.kind = "unsub"]
    /\ unsubs' = [unsubs EXCEPT ![o.name] = @ + 1]
    /\ UNCHANGED <<handlers, nreg, clean, subscribed, channel, cons, tasks,
                   metrics, invoked, deqOrder, outcome>>

\* unsubscribe, under the write lock: the name leaves every index entry
UnsubscribeSweep(o) ==
    /\ o \in regops
    /\ o.kind = "unsub"
    /\ subscriptions' = [t \in EventTypes |-> subscriptions[t] \ {o.name}]
    /\ regops' = regops \ {o}
    /\ gone' = [gone EXCEPT ![o.name] =
                  \A x \in regops : x.name = o.name => x.kind = "unsub"]
    /\ unsubs' = [unsubs EXCEPT ![o.name] = @ + 1]
    /\ UNCHANGED <<handlers, nreg, clean, subscribed, channel, cons, tasks,
                   metrics, invoked, deqOrder, outcome>>

\* a subscriber_count that adds up the index entries
SubscriberCountSumsIndex ==
    Cardinality({<<t, n>> \in EventTypes \X Names : n \in subscriptions[t]})

\* subscriber_count(): handlers.len()
subscriber_count == Cardinality({n \in Names : handlers[n] # NoHandler})

\* ------------------------------------------------------------------ consumer
\* start(): the loop is spawned
Start(l) ==
    /\ cons[l].pc = "unstarted"
    /\ cons' = [cons EXCEPT ![l].pc = "recv"]
    /\ UNCHANGED <<channel, tasks, registry, metrics, invoked, deqOrder, outcome>>

\* a loop that takes the next envelope without awaiting process_event
CanRecvWhileWaiting(l) ==
    \/ cons[l].pc = "recv"
    \/ cons[l].pc = "spawn" /\ cons[l].todo = {}

\* the loop is at event_receiver.recv()
CanRecv(l) == cons[l].pc = "recv"

\* recv that returns the newest envelope
RecvIndexNewest(q) == Len(q)

\* a priority queue: the first of the envelopes of the highest priority
RecvIndexHighestPriority(q) ==
    CHOOSE i \in 1..Len(q) :
        /\ \A j \in 1..Len(q) : q[j].metadata.priority <= q[i].metadata.priority
        /\ \A j \in 1..(i - 1) : q[j].metadata.priority < q[i].metadata.priority

\* the position in the buffer of the envelope recv returns
RecvIndex(q) == 1

\* a broadcast channel: every loop waiting at recv receives the envelope
RecvBroadcast(l) ==
    /\ CanRecv(l)
    /\ queue # <<>>
    /\ LET envelope == queue[1]
           t == event_type(envelope.event)
           woken == {m \in AllLoops : CanRecv(m)}
       IN  /\ queue' = Tail(queue)
           /\ cons' = [m \in AllLoops |->
                          IF m \in woken
                          THEN [pc |-> "names", env |-> envelope, todo |-> {},
                                reg0 |-> RegVersion, late |-> {}]
                          ELSE cons[m]]
           /\ events_received' =
                   [events_received EXCEPT ![t] = @ + Cardinality(woken)]
           /\ deqOrder' = deqOrder \o [k \in 1..Cardinality(woken) |-> envelope.id]
    /\ UNCHANGED <<capacity, closed, sent, pub, enqOrder, pubGone, tasks,
                   registry, events_processed, events_timeout, handler_success,
                   handler_failure, invoked, outcome>>

\* recv returns Ok(envelope); process_event classifies it and counts it as
\* received
Recv(l) ==
    /\ CanRecv(l)
    /\ queue # <<>>
    /\ LET i == RecvIndex(queue)
           envelope == queue[i]
           t == event_type(envelope.event)
       IN  /\ queue' = [j \in 1..(Len(queue) - 1) |->
                          IF j < i THEN queue[j] ELSE queue[j + 1]]
           /\ cons' = [cons EXCEPT ![l] = [pc |-> "names", env |-> envelope,
                                           todo |-> {}, reg0 |-> RegVersion,
                                           late |-> {}]]
           /\ events_received' = [events_received EXCEPT ![t] = @ + 1]
           /\ deqOrder' = Append(deqOrder, envelope.id)
    /\ UNCHANGED <<capacity, closed, sent, pub, enqOrder, pubGone, tasks,
                   registry, events_processed, events_timeout, handler_success,
                   handler_failure, invoked, outcome>>

\* recv returns Err: the channel is closed and empty; the loop breaks
RecvClosed(l) ==
    /\ cons[l].pc = "recv"
    /\ queue = <<>>
    /\ closed
    /\ cons' = [cons EXCEPT ![l].pc = "stopped"]
    /\ UNCHANGED <<channel, tasks, registry, metrics, invoked, deqOrder, outcome>>

\* process_event reads, under the read lock, the index entry of the
\* envelope's EventType
ReadNames(l) ==
    /\ cons[l].pc = "names"
    /\ cons' = [cons EXCEPT ![l].pc = "spawn",
                            ![l].todo = subscriptions[event_type(cons[l].env.event)]]
    /\ UNCHANGED <<channel, tasks, registry, metrics, invoked, deqOrder, outcome>>

\* a dispatch that gives up on the envelope once a handler of it fails
ShouldSpawnStopOnError(l, n) ==
    /\ handlers[n] # NoHandler
    /\ matches_filter(handlers[n].filter, cons[l].env)
    /\ \A t \in tasks : t.env = cons[l].env.id => t.h.beh # "err"

\* a dispatch that trusts the index and skips the filter check
ShouldSpawnNoFilter(l, n) ==
    handlers[n] # NoHandler

\* a dispatch that calls the handlers one after the other: the next one is
\* started only once those before it have returned
ShouldSpawnOneAtATime(l, n) ==
    /\ handlers[n] # NoHandler
    /\ matches_filter(handlers[n].filter, cons[l].env)
    /\ \A t \in tasks : t.env = cons[l].env.id => t.st = "done"

\* a dispatch that delivers an envelope with a non-empty target_plugins
\* list to the named plugins only
ShouldSpawnTargetedOnly(l, n) ==
    /\ handlers[n] # NoHandler
    /\ matches_filter(handlers[n].filter, cons[l].env)
    /\ \/ cons[l].env.metadata.target_plugins = <<>>
       \/ \E i \in DOMAIN cons[l].env.metadata.target_plugins :
                cons[l].env.metadata.target_plugins[i] = n

\* a dispatch that trusts the index for the event type and checks the
\* repository and the branch only
ShouldSpawnTypeFromIndex(l, n) ==
    /\ handlers[n] # NoHandler
    /\ RepositoryCheck(handlers[n].filter, cons[l].env)
    /\ BranchCheck(handlers[n].filter, cons[l].env)

\* whether the dispatch loop spawns a task for candidate n
ShouldSpawn(l, n) ==
    /\ handlers[n] # NoHandler
    /\ matches_filter(handlers[n].filter, cons[l].env)

\* one round of the dispatch loop: handlers.get(name), the filter check and
\* tokio::spawn of the task that calls handle.  handler.filter() runs in the
\* loop's own task: if it panics, the loop's task unwinds and ends, the
\* tasks spawned so far stay detached and the channel stays as it is.
Dispatch(l, n) ==
    /\ cons[l].pc = "spawn"
    /\ n \in cons[l].todo
    /\ IF handlers[n] # NoHandler /\ FilterPanics(handlers[n])
       THEN /\ cons' = [cons EXCEPT ![l].pc = "panicked"]
            /\ UNCHANGED <<tasks, invoked>>
       ELSE /\ cons' = [cons EXCEPT ![l].todo = @ \ {n}, ![l].late = @ \ {n}]
            /\ IF ShouldSpawn(l, n)
               THEN /\ tasks' = tasks \cup {[env |-> cons[l].env.id, name |-> n,
                                             h |-> handlers[n], st |-> "run"]}
                    /\ invoked' = [invoked EXCEPT ![cons[l].env.id][n] = @ + 1]
               ELSE UNCHANGED <<tasks, invoked>>
    /\ UNCHANGED <<channel, registry, metrics, deqOrder, outcome>>

\* the loop is at timeout(30 s, join_all(tasks)): every candidate was visited
Waiting(l) == cons[l].pc = "spawn" /\ cons[l].todo = {}

TasksOf(id) == {t \in tasks : t.env = id}

\* join_all is ready before the deadline: a duration sample is recorded
JoinAll(l) ==
    /\ Waiting(l)
    /\ \A t \in TasksOf(cons[l].env.id) : t.st = "done"
    /\ events_processed' = [events_processed EXCEPT
                              ![event_type(cons[l].env.event)] = @ + 1]
    /\ outcome' = [outcome EXCEPT ![cons[l].env.id] = "processed"]
    /\ cons' = [cons EXCEPT ![l] = [IdleLoop EXCEPT !.pc = "recv"]]
    /\ UNCHANGED <<channel, tasks, registry, events_received, events_timeout,
                   handler_success, handler_failure, invoked, deqOrder>>

\* a deadline that aborts the unfinished tasks of the envelope
TasksAbortedAtTimeout(ts, id) == {t \in ts : t.env # id \/ t.st = "done"}

\* what the deadline does to the spawned tasks: the JoinHandles are dropped,
\* which detaches the tasks
TasksAfterTimeout(ts, id) == ts

\* the deadline elapses with a task unfinished: a timeout is counted
Timeout(l) ==
    /\ Waiting(l)
    /\ \E t \in TasksOf(cons[l].env.id) : t.st = "run"
    /\ events_timeout' = [events_timeout EXCEPT
                            ![event_type(cons[l].env.event)] = @ + 1]
    /\ outcome' = [outcome EXCEPT ![cons[l].env.id] = "timeout"]
    /\ tasks' = TasksAfterTimeout(tasks, cons[l].env.id)
    /\ cons' = [cons EXCEPT ![l] = [IdleLoop EXCEPT !.pc = "recv"]]
    /\ UNCHANGED <<channel, registry, events_received, events_processed,
                   handler_success, handler_failure, invoked, deqOrder>>

\* a spawned task ends: handle returned and the task counted the result
\* under the handler's name, or handle panicked, which unwinds the task past
\* both arms of the match, so that neither counter moves (the JoinHandle then
\* resolves to an error, which join_all's caller drops)
TaskFinish(t) ==
    /\ t \in tasks
    /\ t.st = "run"
    /\ t.h.beh # "hang"
    /\ tasks' = (tasks \ {t}) \cup {[t EXCEPT !.st = "done"]}
    /\ CASE t.h.beh = "ok" ->
                /\ handler_success' = [handler_success EXCEPT ![t.name] = @ + 1]
                /\ UNCHANGED handler_failure
         [] t.h.beh = "err" ->
                /\ handler_failure' = [handler_failure EXCEPT ![t.name] = @ + 1]
                /\ UNCHANGED handler_success
         [] OTHER -> UNCHANGED <<handler_success, handler_failure>>
    /\ UNCHANGED <<channel, cons, registry, events_received, events_processed,
                   events_timeout, invoked, deqOrder, outcome>>

\* ------------------------------------------------------------------ spec
\* what the bus does by itself, once calls were made
BusStep ==
    \/ \E id \in EnvIds : PublishResume(id)
    \/ \E o \in regops : SubscribeIndex(o)
    \/ \E o \in regops : UnsubscribeSweep(o)
    \/ \E l \in Loops : Recv(l)
    \/ \E l \in Loops : RecvClosed(l)
    \/ \E l \in Loops : ReadNames(l)
    \/ \E l \in Loops, n \in Names : Dispatch(l, n)
    \/ \E l \in Loops : JoinAll(l)
    \/ \E l \in Loops : Timeout(l)
    \/ \E t \in tasks : TaskFinish(t)

\* the calls made on the bus
Calls(maxPublish, maxReg) ==
    \/ \E e \in PubEvents : PublishCall(e, maxPublish)
    \/ Close
    \/ \E n \in Names, h \in HandlerObjs : SubscribeCall(n, h, maxReg)
    \/ \E n \in Names : UnsubscribeCall(n, maxReg)
    \/ \E l \in Loops : Start(l)

\* many publishers, little registration
Next == Calls(MaxPublish, BusRegCalls) \/ BusStep

Spec == Init /\ [][Next]_vars

\* much registration, few publishers
NextReg == Calls(RegPublish, MaxRegCalls) \/ BusStep

SpecReg == InitReg /\ [][NextReg]_vars

\* the calls made on the bus, by publishers of the given events and by
\* plugins that register the given handler objects under the given names
CallsWith(events, names, objs, maxPublish, maxReg) ==
    \/ \E e \in events : PublishCall(e, maxPublish)
    \/ Close
    \/ \E n \in names, h \in objs : SubscribeCall(n, h, maxReg)
    \/ \E n \in names : UnsubscribeCall(n, maxReg)
    \/ \E l \in Loops : Start(l)

\* plugins that misbehave: handle fails, panics or never returns, filter()
\* panics
NextFault == CallsWith(PubEvents, Names, FaultObjs, RegPublish, MaxRegCalls) \/ BusStep

SpecFault == InitReg /\ [][NextFault]_vars

\* one plugin implementation, registered and unregistered repeatedly, and
\* publishers of Push events
NextIdem ==
    \/ CallsWith({e \in PubEvents : e.variant = "Push"}, Names, {HFail},
                 RegPublish, IdemRegCalls)
    \/ BusStep

SpecIdem == InitReg /\ [][NextIdem]_vars

\* one plugin with a repository or branch filter; the first publisher sends
\* an event of any variant, the later ones send PubEvents
NextFilter ==
    \/ \E e \in FilterEvents : pub[1] = "idle" /\ PublishCall(e, RegPublish)
    \/ CallsWith({e \in PubEvents : pub[1] # "idle"}, {"a"}, FilterObjs,
                 RegPublish, BusRegCalls)
    \/ BusStep

SpecFilter == InitReg /\ [][NextFilter]_vars

\* ------------------------------------------------------------------ claims
\* the plugin registered under n changes what its filter() returns; the bus
\* holds the same object and is not told
FilterChanges(n) ==
    /\ handlers[n] # NoHandler
    /\ handlers[n].later # handlers[n].filter
    /\ handlers' = [handlers EXCEPT ![n].filter = handlers[n].later]
    /\ UNCHANGED <<subscriptions, regops, nreg, clean, gone, subscribed, unsubs>>
    /\ UNCHANGED <<channel, cons, tasks, metrics, invoked, deqOrder, outcome>>

\* a plugin whose filter() changes while it is subscribed
NextFlip ==
    \/ CallsWith(PubEvents, {"a"}, {HFlip}, RegPublish, BusRegCalls)
    \/ BusStep
    \/ \E n \in Names : FilterChanges(n)

SpecFlip == InitReg /\ [][NextFlip]_vars

\* a well-behaved plugin, one whose handle never returns and one whose
\* filter() panics
LiveObjs == {HPush, HHang, HBadFilter}

NextLive ==
    \/ CallsWith({e \in PubEvents : e.variant = "Push"}, {"a"}, LiveObjs,
                 RegPublish, MaxRegCalls)
    \/ BusStep

\* The runtime runs every task that is ready and fires every timer: a step
\* of the bus that stays possible is eventually taken.  The calls made on
\* the bus are the environment's and are under no such obligation, nor is
\* the return of a handler that never returns.
SpecLive == InitReg /\ [][NextLive]_vars /\ WF_vars(BusStep)

\* one handler with any combination of the three filter fields, and events
\* of every variant
NextMatch ==
    \/ \E e \in FilterEvents : pub[1] = "idle" /\ PublishCall(e, RegPublish)
    \/ CallsWith({e \in PubEvents : pub[1] # "idle"}, {"a"}, MatchObjs,
                 RegPublish, BusRegCalls)
    \/ BusStep

SpecMatch == InitReg /\ [][NextMatch]_vars

\* every subscribe and unsubscribe call has returned
RegistryDone(maxReg) == nreg = maxReg /\ regops = {}

\* publish first, start last: the publish calls are made before the last
\* subscribe or unsubscribe call has returned, and the loop is started after
NextLate ==
    \/ \E e \in PubEvents : ~RegistryDone(MaxRegCalls) /\ PublishCall(e, RegPublish)
    \/ Close
    \/ \E h \in HandlerObjs : SubscribeCall("a", h, MaxRegCalls)
    \/ UnsubscribeCall("a", MaxRegCalls)
    \/ \E l \in Loops : RegistryDone(MaxRegCalls) /\ Start(l)
    \/ BusStep

SpecLate == InitReg /\ [][NextLate]_vars

\* one handler with one branch pattern, and Push events on arbitrary branch
\* names
NextGlob ==
    \/ \E e \in GlobEvents : pub[1] = "idle" /\ PublishCall(e, RegPublish)
    \/ CallsWith({e \in PubEvents : pub[1] # "idle"}, {"a"}, GlobObjs,
                 RegPublish, BusRegCalls)
    \/ BusStep

SpecGlob == InitReg /\ [][NextGlob]_vars

\* publishers of Push events that set the metadata of their envelopes; the
\* plugins have registered before the loop is started
NextMeta ==
    \/ \E e \in {f \in PubEvents : f.variant = "Push"}, m \in MetaObjs :
            PublishEnvelope(e, m, MaxPublish)
    \/ Close
    \/ \E n \in Names, h \in {HPush, HTag} : SubscribeCall(n, h, MaxRegCalls)
    \/ \E n \in Names : UnsubscribeCall(n, MaxRegCalls)
    \/ \E l \in Loops : RegistryDone(MaxRegCalls) /\ Start(l)
    \/ BusStep

SpecMeta == Init /\ [][NextMeta]_vars

\* the steps of one consumer loop
LoopStep(l) ==
    \/ Recv(l)
    \/ RecvClosed(l)
    \/ ReadNames(l)
    \/ \E n \in Names : Dispatch(l, n)
    \/ JoinAll(l)
    \/ Timeout(l)

\* start() is called twice on the same bus: two loops receive from clones
\* of the one receiver
NextTwo ==
    \/ Calls(MaxPublish, BusRegCalls)
    \/ BusStep
    \/ \E l \in SecondLoops : Start(l)
    \/ \E l \in SecondLoops : LoopStep(l)

SpecTwo == Init /\ [][NextTwo]_vars

InQueueCount(id) == Cardinality({i \in 1..Len(queue) : queue[i].id = id})

DeqCount(id) == Cardinality({i \in 1..Len(deqOrder) : deqOrder[i] = id})

InDispatch(id) == \E l \in Loops : cons[l].pc \in {"names", "spawn"} /\ cons[l].env.id = id

\* C5: with a single consumer loop, envelopes begin dispatch in exactly the
\* order in which their publish calls enqueued them, whatever their events:
\* the ids recv returned are a prefix of the ids in enqueue order.
C5_DispatchInEnqueueOrder ==
    /\ Len(deqOrder) <= Len(enqOrder)
    /\ deqOrder = SubSeq(enqOrder, 1, Len(deqOrder))

\* three envelopes of different event types were dequeued
C5_Witness ==
    /\ Len(deqOrder) = 3
    /\ sent[deqOrder[1]].event # sent[deqOrder[2]].event
    /\ sent[deqOrder[2]].event # sent[deqOrder[3]].event

\* C6: the queue never holds more envelopes than the capacity given to new();
\* a publish call made while the open queue is full is suspended and leaves
\* the queue as it is, and while the open queue stays full the call stays
\* suspended and the queue changes only by the consumer taking its oldest
\* envelope.
C6_BoundedQueueBackpressure ==
    /\ [](Len(queue) <= capacity)
    /\ [][\A id \in EnvIds :
            /\ (pub[id] = "idle" /\ pub'[id] # "idle"
                    /\ Len(queue) = capacity /\ ~closed)
                => (pub'[id] = "suspended" /\ queue' = queue)
            /\ (pub[id] = "suspended" /\ Len(queue) = capacity /\ ~closed)
                => /\ pub'[id] = "suspended"
                   /\ \/ queue' = queue
                      \/ /\ queue' = Tail(queue)
                         /\ deqOrder' = Append(deqOrder, Head(queue).id)]_vars

\* a publish call is suspended on a full queue
C6_Witness ==
    \E id \in EnvIds :
        /\ pub[id] = "suspended"
        /\ Len(queue) = capacity
        /\ ~closed

\* C7: every envelope whose publish call returned success is in exactly one
\* place: in the queue (once, unchanged), or dequeued (once) and then being
\* dispatched or already dispatched.
C7_NoLossNoDuplication ==
    \A id \in EnvIds :
        pub[id] = "ok" =>
            /\ InQueueCount(id) + DeqCount(id) = 1
            /\ \A i \in 1..Len(queue) : queue[i].id = id => queue[i] = sent[id]
            /\ DeqCount(id) = 1 => (InDispatch(id) \/ outcome[id] # "none")
            /\ ~(InDispatch(id) /\ outcome[id] # "none")

\* three accepted envelopes: one dispatched, one being dispatched, one queued
C7_Witness ==
    /\ \A id \in EnvIds : pub[id] = "ok"
    /\ \E id \in EnvIds : outcome[id] = "processed"
    /\ \E id \in EnvIds : InDispatch(id)
    /\ \E id \in EnvIds : InQueue(id)

\* C8: a publish call ends in an error only when the queue is closed and
\* never ends in success (or suspends) when it is; an envelope whose call
\* ended in an error is never enqueued, never dequeued and never handed to a
\* handler.
C8_ErrorIffClosed ==
    /\ [](\A id \in EnvIds :
            pub[id] = "err" =>
                /\ closed
                /\ ~InQueue(id)
                /\ DeqCount(id) = 0
                /\ \A n \in Names : invoked[id][n] = 0
                /\ \A t \in tasks : t.env # id)
    /\ [][\A id \in EnvIds :
            pub'[id] # pub[id] =>
                /\ pub'[id] = "err" <=> closed
                /\ pub'[id] \in {"ok", "suspended"} <=> ~closed]_vars

\* one call failed on the closed queue after another was accepted and handled
C8_Witness ==
    \E id, ok \in EnvIds :
        /\ pub[id] = "err"
        /\ pub[ok] = "ok"
        /\ \E n \in Names : invoked[ok][n] = 1

\* C9: the loop takes the next envelope only after the wait for the current
\* one ended, by every spawned task having finished or by the deadline: every
\* envelope dequeued before the latest one has an outcome, an envelope
\* recorded as processed has no running task, a loop in process_event works
\* on the latest dequeued envelope, and handler tasks exist only for dequeued
\* envelopes, so none of envelope N+1 is started during the wait on N.
C9_WaitBeforeNextEnvelope ==
    /\ \A i \in 1..Len(deqOrder) :
        /\ i < Len(deqOrder) => outcome[deqOrder[i]] # "none"
        /\ outcome[deqOrder[i]] = "processed"
            => \A t \in TasksOf(deqOrder[i]) : t.st = "done"
    /\ \A l \in Loops :
        cons[l].pc \in {"names", "spawn"}
            => /\ cons[l].env.id = deqOrder[Len(deqOrder)]
               /\ outcome[cons[l].env.id] = "none"
    /\ \A t \in tasks : DeqCount(t.env) = 1
    /\ \A id \in EnvIds : outcome[id] # "none" => DeqCount(id) = 1

\* the wait on the first envelope ended by the deadline, its task still runs,
\* and the second envelope's task was started afterwards
C9_Witness ==
    /\ Len(deqOrder) >= 2
    /\ outcome[deqOrder[1]] = "timeout"
    /\ \E t \in TasksOf(deqOrder[1]) : t.st = "run"
    /\ TasksOf(deqOrder[2]) # {}

\* C10: when the wait on an envelope ends while one of its tasks is
\* unfinished, that step adds one to the timeout counter of the envelope's
\* EventType, records no duration sample and leaves every task as it is; the
\* timeout counters count the timed-out envelopes; and a running task never
\* leaves the task set other than by finishing, so the unfinished tasks of a
\* timed-out envelope are not cancelled.
C10_TimeoutCountsOnceKeepsTasks ==
    /\ [](\A ty \in EventTypes :
            events_timeout[ty] =
                Cardinality({id \in EnvIds : /\ outcome[id] = "timeout"
                                             /\ event_type(sent[id].event) = ty}))
    /\ [][\A l \in Loops :
            (/\ cons[l].pc = "spawn" /\ cons[l].todo = {}
             /\ cons'[l].pc # "spawn"
             /\ \E t \in TasksOf(cons[l].env.id) : t.st = "run")
            => /\ events_timeout' =
                    [events_timeout EXCEPT ![event_type(cons[l].env.event)] = @ + 1]
               /\ events_processed' = events_processed
               /\ tasks' = tasks
               /\ outcome'[cons[l].env.id] = "timeout"]_vars
    /\ [][\A t \in tasks :
            t.st = "run" => (t \in tasks' \/ [t EXCEPT !.st = "done"] \in tasks')]_vars

\* an envelope timed out once and its task, unfinished at the deadline, has
\* run to completion and counted its result
C10_Witness ==
    \E id \in EnvIds :
        /\ outcome[id] = "timeout"
        /\ events_timeout[event_type(sent[id].event)] = 1
        /\ Cardinality(TasksOf(id)) = 1
        /\ \A t \in TasksOf(id) : t.st = "done" /\ handler_success[t.name] = 1

\* the handler registered under n: the last call on n was a subscribe, it
\* has returned, and no other call on n overlapped it
Registered(n) == clean[n] /\ handlers[n] # NoHandler

\* loop l has visited every candidate of its envelope, and no subscribe or
\* unsubscribe call took a step since the envelope was dequeued
QuietFanOut(l) ==
    /\ cons[l].pc = "spawn"
    /\ cons[l].todo = {}
    /\ regops = {}
    /\ cons[l].reg0 = RegVersion

SingleType(filter) ==
    /\ Cardinality(filter.event_types) = 1
    /\ filter.repositories = {}
    /\ filter.branches = {}

\* C1: with the loop running and no subscribe or unsubscribe in progress, a
\* handler registered with a filter for the single EventType T has, once the
\* fan-out of an envelope is done, been invoked exactly once for it if its
\* event classifies as T and not at all if it classifies as another type.
C1_SingleTypeDelivery ==
    \A l \in Loops :
        QuietFanOut(l) =>
            \A n \in Names :
                (Registered(n) /\ SingleType(handlers[n].filter)) =>
                    invoked[cons[l].env.id][n] =
                        IF event_type(cons[l].env.event) \in handlers[n].filter.event_types
                        THEN 1 ELSE 0

\* a Push handler and a Tag handler are registered and an envelope was fanned
\* out to the one whose type it has
C1_Witness ==
    \E l \in Loops :
        /\ QuietFanOut(l)
        /\ \E n, m \in Names :
            /\ Registered(n) /\ SingleType(handlers[n].filter)
            /\ Registered(m) /\ SingleType(handlers[m].filter)
            /\ invoked[cons[l].env.id][n] = 1
            /\ invoked[cons[l].env.id][m] = 0

DoneTasks(n, beh) ==
    {t \in tasks : t.name = n /\ t.st = "done" /\ t.h.beh = beh}

\* C2: when a handler that always fails and a handler that succeeds are both
\* registered and both match an envelope, both are invoked exactly once for
\* it; and of two tasks of one envelope, one failing and one succeeding, the
\* succeeding one's name has one success counted for each of its finished
\* successful tasks and failures only for its own failed tasks.
C2_FailingHandlerIsolated ==
    /\ \A l \in Loops :
        QuietFanOut(l) =>
            \A a, b \in Names :
                (/\ a # b
                 /\ Registered(a) /\ handlers[a].beh = "err"
                 /\ Registered(b) /\ handlers[b].beh = "ok"
                 /\ matches_filter(handlers[a].filter, cons[l].env)
                 /\ matches_filter(handlers[b].filter, cons[l].env))
                => /\ invoked[cons[l].env.id][a] = 1
                   /\ invoked[cons[l].env.id][b] = 1
    /\ \A ta, tb \in tasks :
        (ta.env = tb.env /\ ta.h.beh = "err" /\ tb.h.beh = "ok")
        => /\ handler_success[tb.name] = Cardinality(DoneTasks(tb.name, "ok"))
           /\ handler_failure[tb.name] = Cardinality(DoneTasks(tb.name, "err"))

\* the failing and the succeeding handler both finished their task of one
\* envelope: one success and no failure is counted for the succeeding one
C2_Witness ==
    \E ta, tb \in tasks :
        /\ ta.env = tb.env
        /\ ta.h.beh = "err" /\ ta.st = "done"
        /\ tb.h.beh = "ok" /\ tb.st = "done"
        /\ handler_success[tb.name] = 1
        /\ handler_failure[tb.name] = 0
        /\ handler_failure[ta.name] = 1

\* C3: once unsubscribe(name) has returned, with no subscribe of the name
\* running then or called since, an envelope published afterwards never
\* invokes a handler under that name.
C3_NoDeliveryAfterUnsubscribe ==
    \A id \in EnvIds :
        \A n \in pubGone[id] : invoked[id][n] = 0

\* a handler was invoked for one envelope, then unsubscribed, and a second
\* envelope published after that was dispatched without it
C3_Witness ==
    \E id, before \in EnvIds :
        \E n \in pubGone[id] :
            /\ outcome[id] = "processed"
            /\ invoked[before][n] = 1

\* C4: handle is invoked at most once per envelope and handler name, also
\* when the handler fails and when subscribe and unsubscribe calls interleave
\* with the dispatch, and every invocation is of a handler whose filter
\* matches the envelope.
C4_AtMostOnceAndOnlyMatching ==
    /\ \A id \in EnvIds, n \in Names :
        /\ invoked[id][n] <= 1
        /\ invoked[id][n] = Cardinality({t \in tasks : t.env = id /\ t.name = n})
    /\ \A t \in tasks : matches_filter(t.h.filter, sent[t.env])

\* a subscribe or unsubscribe call took a step while an envelope was being
\* dispatched; the failing handler was invoked once for it, and a handler
\* whose filter rejects the envelope was not
C4_Witness ==
    \E t \in tasks, l \in Loops :
        /\ t.st = "done"
        /\ t.h.beh = "err"
        /\ invoked[t.env][t.name] = 1
        /\ Waiting(l)
        /\ cons[l].env.id = t.env
        /\ cons[l].reg0 # RegVersion
        /\ \E n \in Names :
            /\ handlers[n] # NoHandler
            /\ ~matches_filter(handlers[n].filter, sent[t.env])
            /\ invoked[t.env][n] = 0

\* the tasks of name n whose handle call has ended, for handlers of the
\* given behaviours
EndedTasks(n, behs) ==
    {t \in tasks : t.name = n /\ t.st = "done" /\ t.h.beh \in behs}

\* C11: every handle invocation that ended in an error return or in a panic
\* added exactly one to the failure counter of the handler's name and nothing
\* to its success counter: per name, the failure counter is the number of
\* invocations ended in an error or a panic, the success counter the number
\* of invocations that returned Ok.
C11_ErrorOrPanicCountsFailure ==
    \A n \in Names :
        /\ handler_failure[n] = Cardinality(EndedTasks(n, {"err", "panic"}))
        /\ handler_success[n] = Cardinality(EndedTasks(n, {"ok", "fpanic"}))

\* what the code does keep: an error return counts one failure, a panic in
\* handle counts nothing
C11_ErrorReturnCountsFailure ==
    \A n \in Names :
        /\ handler_failure[n] = Cardinality(EndedTasks(n, {"err"}))
        /\ handler_success[n] = Cardinality(EndedTasks(n, {"ok", "fpanic"}))

\* the loop's task has ended: by the break on a closed and drained channel,
\* or by a panic
Ended(l) == cons[l].pc \in {"stopped", "panicked"}

\* C12: no handler behaviour ends the consumer loop: whatever handle and
\* filter() of the registered handlers do, the loop's task never ends by a
\* panic, and it has ended only if the queue was closed.
C12_NoHandlerEndsLoop ==
    \A l \in Loops :
        /\ cons[l].pc # "panicked"
        /\ Ended(l) => closed

\* what the code does keep: an error return, a panic or a hang inside
\* handle never ends the loop; only a panic of filter() does
C12_OnlyFilterPanicEndsLoop ==
    [][\A l \in Loops :
        (cons'[l].pc = "panicked" /\ cons[l].pc # "panicked")
            => \E n \in cons[l].todo :
                  handlers[n] # NoHandler /\ FilterPanics(handlers[n])]_vars

\* C13: the loop never ends while the queue is open; when it has ended,
\* the queue is closed and empty and every envelope that was enqueued has
\* been dequeued, in enqueue order; and once ended it stays ended.
C13_DrainThenEndOnlyWhenClosed ==
    /\ [](\A l \in Loops :
            Ended(l) => /\ closed
                        /\ queue = <<>>
                        /\ deqOrder = enqOrder)
    /\ [][\A l \in Loops : Ended(l) => cons'[l] = cons[l]]_vars

\* what the code does keep: the break of the loop happens only on the
\* closed queue, after every enqueued envelope was dequeued in order and
\* dispatched, and is final
C13_BreakOnlyWhenClosedAndDrained ==
    /\ [](\A l \in Loops :
            cons[l].pc = "stopped"
                => /\ closed
                   /\ queue = <<>>
                   /\ deqOrder = enqOrder
                   /\ \A i \in 1..Len(deqOrder) : outcome[deqOrder[i]] # "none")
    /\ [][\A l \in Loops : cons[l].pc = "stopped" => cons'[l] = cons[l]]_vars

\* the step is the first step of a subscribe call that gets past filter():
\* its record o enters regops
SubscribeCalled(o) ==
    /\ nreg' = nreg + 1
    /\ o \in regops'
    /\ o.op = nreg'
    /\ o.kind = "sub"

\* C14: a subscribe call on a name that has a handler leaves
\* subscriber_count as it is and puts the given handler in the place of the
\* registered one, and every handler task the dispatch starts runs the
\* handler given to the latest subscribe call on its name, so never one that
\* was replaced.
C14_ResubscribeReplaces ==
    [][/\ \A o \in regops' :
            SubscribeCalled(o) =>
                /\ handlers'[o.name] = o.h
                /\ handlers[o.name] # NoHandler
                        => subscriber_count' = subscriber_count
       /\ \A t \in tasks' \ tasks :
            t.st = "run" => t.h = subscribed[t.name]]_vars

\* a name was subscribed twice with different handlers, without overlap; an
\* earlier envelope went to the first handler, a later one to the second
C14_Witness ==
    \E n \in Names : \E t1, t2 \in tasks :
        /\ clean[n]
        /\ t1.name = n /\ t2.name = n
        /\ t1.env < t2.env
        /\ t1.h # t2.h
        /\ t2.h = handlers[n]
        /\ subscriber_count = 1

\* the step is the first step of an unsubscribe call: its record o enters
\* regops
UnsubscribeCalled(o) ==
    /\ nreg' = nreg + 1
    /\ o \in regops'
    /\ o.op = nreg'
    /\ o.kind = "unsub"

\* the step is the last step of the unsubscribe call o: the call returns
UnsubscribeReturned(o) ==
    /\ nreg' = nreg
    /\ o \in regops
    /\ o \notin regops'
    /\ o.kind = "unsub"

\* name n is not registered: it has no entry in the handler map, and it was
\* never subscribed, or an unsubscribe of it has returned with no subscribe
\* of it running then or called since
NotRegistered(n) ==
    /\ handlers[n] = NoHandler
    /\ subscribed[n] = NoHandler \/ gone[n]

\* C15: both steps of an unsubscribe call on a name that is not registered
\* (never subscribed, or already unsubscribed) leave the handler map, every
\* EventType's index entry and subscriber_count as they are; the call has no
\* error path, so it returns success.
C15_UnsubscribeUnknownIsNoOp ==
    [][\A o \in regops \cup regops' :
        ((UnsubscribeCalled(o) \/ UnsubscribeReturned(o)) /\ NotRegistered(o.name))
            => /\ handlers' = handlers
               /\ subscriptions' = subscriptions
               /\ subscriber_count' = subscriber_count]_vars

\* a name that was subscribed has been unsubscribed twice and both calls
\* have returned; the other name was never subscribed
C15_Witness ==
    \E n, m \in Names :
        /\ subscribed[n] # NoHandler
        /\ gone[n]
        /\ unsubs[n] = 2
        /\ OpsOn(n) = {}
        /\ subscribed[m] = NoHandler
        /\ handlers = [x \in Names |-> NoHandler]

\* C16: subscriber_count is the number of names that have an entry in the
\* handler map: the first step of a subscribe call raises it by one if the
\* name had no entry and leaves it otherwise, the first step of an
\* unsubscribe call lowers it by one if the name had an entry and leaves it
\* otherwise, and no other step, the index updates included, changes it.
C16_SubscriberCountCountsNames ==
    /\ [](subscriber_count = Cardinality({n \in Names : handlers[n] # NoHandler}))
    /\ [][/\ \A o \in regops' :
                /\ SubscribeCalled(o) =>
                      subscriber_count' = subscriber_count +
                          (IF handlers[o.name] = NoHandler THEN 1 ELSE 0)
                /\ UnsubscribeCalled(o) =>
                      subscriber_count' = subscriber_count -
                          (IF handlers[o.name] = NoHandler THEN 0 ELSE 1)
           /\ nreg' = nreg => subscriber_count' = subscriber_count]_vars

\* one name is registered and indexed under all six EventTypes, an
\* unsubscribe of the other, unknown name has returned, and the count is one
C16_Witness ==
    \E n, m \in Names :
        /\ regops = {}
        /\ clean[n]
        /\ \A t \in EventTypes : n \in subscriptions[t]
        /\ subscribed[m] = NoHandler
        /\ unsubs[m] = 1
        /\ subscriber_count = 1

\* the number of handle invocations the fan-out of loop l made for name n
Delivered(l, n) == invoked[cons[l].env.id][n]

\* C17: the filter with three empty sets matches the envelope of every
\* event, of each of the thirteen variants; and once the fan-out of an
\* envelope is done, with no registry step since it was dequeued, a handler
\* registered with that filter has been invoked for it, once.
C17_EmptyFilterMatchesAll ==
    /\ \A e \in FilterEvents : \A id \in EnvIds :
            matches_filter(MkFilter({}, {}, {}), MkEnvelope(id, e, TestMetadata))
    /\ {e.variant : e \in FilterEvents} = Variants
    /\ \A l \in Loops :
        QuietFanOut(l) =>
            \A n \in Names :
                (Registered(n) /\ handlers[n].filter = MkFilter({}, {}, {}))
                    => Delivered(l, n) = 1

\* an AiAnalysisCompleted event, which no EventType names, was delivered to
\* the handler with the empty filter
C17_Witness ==
    \E l \in Loops : \E n \in Names :
        /\ QuietFanOut(l)
        /\ Registered(n)
        /\ handlers[n].filter = MkFilter({}, {}, {})
        /\ cons[l].env.event.variant = "AiAnalysisCompleted"
        /\ Delivered(l, n) = 1

\* the repository name an event carries: the name field of the embedded
\* repository for RepositoryCreated, the repository field otherwise
RepositoryName(e) ==
    IF e.variant = "RepositoryCreated" THEN e.repository_struct.name
    ELSE e.repository

RepositoryOnly(filter) ==
    /\ filter.event_types = {}
    /\ filter.repositories # {}
    /\ filter.branches = {}

\* C18: once the fan-out of an envelope is done, with no registry step since
\* it was dequeued, a handler registered with a filter that has only a
\* repository set R has been invoked for it (once) if and only if the
\* repository name of its event is in R, for events of every variant; for
\* RepositoryCreated that name is the name of the embedded repository.
C18_RepositoryFilter ==
    \A l \in Loops :
        QuietFanOut(l) =>
            \A n \in Names :
                (Registered(n) /\ RepositoryOnly(handlers[n].filter))
                    => Delivered(l, n) =
                         IF RepositoryName(cons[l].env.event)
                                \in handlers[n].filter.repositories
                         THEN 1 ELSE 0

\* a RepositoryCreated event whose embedded repository has a name of the
\* filter's set was delivered, and its flat repository field is not in it
C18_Witness ==
    \E l \in Loops : \E n \in Names :
        /\ QuietFanOut(l)
        /\ Registered(n)
        /\ RepositoryOnly(handlers[n].filter)
        /\ cons[l].env.event.variant = "RepositoryCreated"
        /\ cons[l].env.event.repository \notin handlers[n].filter.repositories
        /\ Delivered(l, n) = 1

\* an event of another repository was not delivered
C18_WitnessRejected ==
    \E l \in Loops : \E n \in Names :
        /\ QuietFanOut(l)
        /\ Registered(n)
        /\ RepositoryOnly(handlers[n].filter)
        /\ cons[l].env.event.repository = "other-repo"
        /\ Delivered(l, n) = 0

BranchOnly(filter) ==
    /\ filter.event_types = {}
    /\ filter.repositories = {}
    /\ filter.branches # {}

\* C19: once the fan-out of the envelope of a Push event is done, with no
\* registry step since it was dequeued, a handler registered with a filter
\* that has only a branch pattern set B has been invoked for it (once) if
\* and only if the pushed branch matches at least one pattern of B; the
\* pattern "f/*" matches the branch "f/a" and not "main", the pattern "main"
\* matches "main" only.
C19_BranchFilterOnPush ==
    /\ glob_match(PatternFeature, BranchFeatureAuth)
    /\ ~glob_match(PatternFeature, BranchMain)
    /\ glob_match(BranchMain, BranchMain)
    /\ ~glob_match(BranchMain, BranchFeatureAuth)
    /\ \A l \in Loops :
        (QuietFanOut(l) /\ cons[l].env.event.variant = "Push") =>
            \A n \in Names :
                (Registered(n) /\ BranchOnly(handlers[n].filter))
                    => Delivered(l, n) =
                         IF \E pattern \in handlers[n].filter.branches :
                                glob_match(pattern, cons[l].env.event.branch)
                         THEN 1 ELSE 0

\* a Push on a branch that matches one of the two patterns of the filter and
\* not the other was delivered
C19_Witness ==
    \E l \in Loops : \E n \in Names :
        /\ QuietFanOut(l)
        /\ Registered(n)
        /\ BranchOnly(handlers[n].filter)
        /\ cons[l].env.event.variant = "Push"
        /\ \E p, q \in handlers[n].filter.branches :
                /\ glob_match(p, cons[l].env.event.branch)
                /\ ~glob_match(q, cons[l].env.event.branch)
        /\ Delivered(l, n) = 1

\* a Push on a branch that matches no pattern of the filter was not delivered
C19_WitnessRejected ==
    \E l \in Loops : \E n \in Names :
        /\ QuietFanOut(l)
        /\ Registered(n)
        /\ handlers[n].filter.branches = {PatternFeature}
        /\ cons[l].env.event.variant = "Push"
        /\ cons[l].env.event.branch = BranchMain
        /\ Delivered(l, n) = 0

\* the variants from which no branch can be extracted
NoBranchVariants == Variants \ {"Push", "CiRunStarted", "PullRequestOpened"}

\* C20 as stated: once the fan-out of the envelope of an event without an
\* extractable branch is done, a handler registered with a filter whose
\* branch pattern set is not empty has not been invoked for it.
C20_NoBranchRejected ==
    \A l \in Loops :
        (QuietFanOut(l) /\ cons[l].env.event.variant \in NoBranchVariants) =>
            \A n \in Names :
                (Registered(n) /\ handlers[n].filter.branches # {})
                    => Delivered(l, n) = 0

\* C20, amended: an event without an extractable branch passes the branch
\* check of every filter, the check being skipped: once the fan-out of its
\* envelope is done, with no registry step since it was dequeued, a handler
\* registered with a filter whose branch pattern set is not empty has been
\* invoked for it (once) if and only if the event's type and repository
\* pass the filter's type and repository sets.
C20_NoBranchSkipsBranchCheck ==
    \A l \in Loops :
        (QuietFanOut(l) /\ cons[l].env.event.variant \in NoBranchVariants) =>
            \A n \in Names :
                (Registered(n) /\ handlers[n].filter.branches # {})
                    => LET f == handlers[n].filter
                           e == cons[l].env.event
                       IN  Delivered(l, n) =
                             IF /\ f.event_types = {} \/ event_type(e) \in f.event_types
                                /\ f.repositories = {}
                                        \/ RepositoryName(e) \in f.repositories
                             THEN 1 ELSE 0

\* a TagCreated event was delivered to a handler whose filter has the branch
\* pattern "main" only
C20_Witness ==
    \E l \in Loops : \E n \in Names :
        /\ QuietFanOut(l)
        /\ Registered(n)
        /\ handlers[n].filter = MkFilter({}, {}, {BranchMain})
        /\ cons[l].env.event.variant = "TagCreated"
        /\ Delivered(l, n) = 1

\* the five rules of the pattern matcher, in order, stated on characters
GlobRule(pattern, text) ==
    LET n == Len(pattern)
        m == Len(text)
    IN  IF n = 1 /\ pattern[1] = "*" THEN TRUE
        ELSE IF n >= 1 /\ pattern[1] = "*" /\ pattern[n] = "*"
        THEN \E i \in 0..m : \E j \in i..m :
                /\ j - i = n - 2
                /\ \A k \in 1..(n - 2) : text[i + k] = pattern[k + 1]
        ELSE IF n >= 1 /\ pattern[1] = "*"
        THEN /\ m >= n - 1
             /\ \A k \in 1..(n - 1) : text[m - (n - 1) + k] = pattern[k + 1]
        ELSE IF n >= 1 /\ pattern[n] = "*"
        THEN /\ m >= n - 1
             /\ \A k \in 1..(n - 1) : text[k] = pattern[k]
        ELSE pattern = text

\* C21: glob_match decides by the first rule that applies: the pattern "*"
\* matches every text; a pattern that begins and ends with "*" matches the
\* texts that contain what stands between the two; a pattern that only
\* begins with "*" matches the texts that end with the rest; a pattern that
\* only ends with "*" matches the texts that begin with what precedes it;
\* any other pattern, a "*" inside it included, matches the equal text only.
\* Once the fan-out of a Push envelope is done, with no registry step since
\* it was dequeued, a handler registered with one branch pattern has been
\* invoked for it (once) if and only if the rules accept the pushed branch.
C21_GlobDecisionList ==
    \A l \in Loops :
        (QuietFanOut(l) /\ cons[l].env.event.variant = "Push") =>
            \A n \in Names :
                (Registered(n) /\ BranchOnly(handlers[n].filter)) =>
                    \A pattern \in handlers[n].filter.branches :
                        Cardinality(handlers[n].filter.branches) = 1 =>
                            LET text == cons[l].env.event.branch
                            IN  /\ glob_match(pattern, text) = GlobRule(pattern, text)
                                /\ Delivered(l, n) =
                                        IF GlobRule(pattern, text) THEN 1 ELSE 0

\* a Push on the branch "ba" was delivered to the handler with the pattern
\* "*a*"
C21_Witness ==
    \E l \in Loops : \E n \in Names :
        /\ QuietFanOut(l)
        /\ Registered(n)
        /\ handlers[n].filter.branches = {<<"*", "a", "*">>}
        /\ cons[l].env.event.branch = <<"b", "a">>
        /\ Delivered(l, n) = 1

\* a Push on the branch "ab" was not delivered to the handler with the
\* pattern "a*b", whose "*" is no wildcard
C21_WitnessLiteral ==
    \E l \in Loops : \E n \in Names :
        /\ QuietFanOut(l)
        /\ Registered(n)
        /\ handlers[n].filter.branches = {<<"a", "*", "b">>}
        /\ cons[l].env.event.branch = <<"a", "b">>
        /\ Delivered(l, n) = 0

\* the classification of the thirteen variants, as a table
ClassOf ==
    [v \in Variants |->
        IF v \in {"Push", "AiAnalysisRequested", "AiAnalysisCompleted"} THEN "Push"
        ELSE IF v \in {"PullRequestOpened", "PullRequestMerged", "PullRequestClosed"}
        THEN "PullRequest"
        ELSE IF v = "TagCreated" THEN "Tag"
        ELSE IF v \in {"RepositoryCreated", "RepositoryDeleted"} THEN "Repository"
        ELSE IF v \in {"ReviewRequested", "ReviewSubmitted"} THEN "Review"
        ELSE "CiRun"]

\* C22: every dequeued event is of one of the thirteen variants and
\* event_type gives it the EventType of the table, the two AiAnalysis
\* variants being Push; once the fan-out of an envelope is done, with no
\* registry step since it was dequeued, a handler registered with the type
\* set {Push} and nothing else has been invoked for it (once) if and only if
\* the event is a Push, an AiAnalysisRequested or an AiAnalysisCompleted.
C22_ClassifyTotalAiIsPush ==
    \A l \in Loops :
        cons[l].env # NoEnvelope =>
            LET e == cons[l].env.event
            IN  /\ e.variant \in Variants
                /\ event_type(e) = ClassOf[e.variant]
                /\ event_type(e) \in EventTypes
                /\ QuietFanOut(l) =>
                     \A n \in Names :
                        (Registered(n) /\ handlers[n].filter = MkFilter({"Push"}, {}, {}))
                            => Delivered(l, n) =
                                 IF e.variant \in {"Push", "AiAnalysisRequested",
                                                   "AiAnalysisCompleted"}
                                 THEN 1 ELSE 0

\* an AiAnalysisCompleted event has been delivered to a handler subscribed
\* to Push only
C22_Witness ==
    \E l \in Loops : \E n \in Names :
        /\ QuietFanOut(l)
        /\ Registered(n)
        /\ handlers[n].filter = MkFilter({"Push"}, {}, {})
        /\ cons[l].env.event.variant = "AiAnalysisCompleted"
        /\ Delivered(l, n) = 1

\* C23 as stated: the delivery decisions of a subscription use the value
\* filter() returned at subscribe time: once the fan-out of an envelope is
\* done, with no registry step since it was dequeued, a registered handler
\* has been invoked for it (once) if and only if the envelope matches the
\* filter the handler returned when it was subscribed, whatever filter()
\* returns since.
C23_FilterQueriedOnceAtSubscribe ==
    \A l \in Loops :
        QuietFanOut(l) =>
            \A n \in Names :
                Registered(n) =>
                    Delivered(l, n) =
                        IF matches_filter(subscribed[n].filter, cons[l].env)
                        THEN 1 ELSE 0

\* What the bus does: the filter of subscribe time chooses the index entries
\* and so the candidates, and the value filter() returns when the candidate
\* is visited decides: every task is for an envelope of a type indexed at
\* subscribe time, and no task is started for an envelope that the filter
\* value of that moment rejects.
C23_DispatchQueriesFilterAgain ==
    [][\A t \in tasks' \ tasks :
            t.st = "run" =>
                /\ event_type(sent[t.env].event) \in IndexTypes(subscribed[t.name].filter)
                        \/ ~clean[t.name]
                /\ matches_filter(handlers[t.name].filter, sent[t.env])]_vars

\* a Push envelope was not delivered to a handler subscribed with the type
\* set {Push}, whose filter() returns {Tag} since
C23_Witness ==
    \E l \in Loops : \E n \in Names :
        /\ QuietFanOut(l)
        /\ Registered(n)
        /\ subscribed[n].filter = MkFilter({"Push"}, {}, {})
        /\ handlers[n].filter = MkFilter({"Tag"}, {}, {})
        /\ cons[l].env.event.variant = "Push"
        /\ Delivered(l, n) = 0

\* C24: whenever a publisher tries to send (on its call, or when it is woken
\* after a suspension), the outcome depends on the channel alone: with the
\* queue open and holding fewer envelopes than its capacity the call
\* completes and the envelope is at the tail of the queue, whatever the
\* consumer is doing; the publisher is suspended only when the queue is open
\* and full; and a suspended publisher can retry as soon as the queue is no
\* longer full.
C24_PublishWaitsOnlyForRoom ==
    /\ [][\A id \in EnvIds :
            (pub[id] \in {"idle", "suspended"} /\ pub'[id] # pub[id]) =>
                /\ (~closed /\ Len(queue) < capacity) =>
                        /\ pub'[id] = "ok"
                        /\ queue' = Append(queue, sent'[id])
                /\ pub'[id] = "suspended" => (~closed /\ Len(queue) = capacity)
                /\ UNCHANGED <<cons, tasks>>]_vars
    /\ [](\A id \in EnvIds :
            (pub[id] = "suspended" /\ Len(queue) < capacity)
                => ENABLED PublishResume(id))

\* the queue has room for one envelope; the second envelope is in it, so its
\* publish call completed after the first was dequeued, while the only
\* handler task of the first has not returned (it never does) and the loop
\* has not moved past it
C24_Witness ==
    \E l \in Loops :
        /\ capacity = 1
        /\ cons[l].env = sent[1]
        /\ cons[l].pc = "spawn"
        /\ \E t \in tasks : t.env = 1 /\ t.st = "run" /\ t.h.beh = "hang"
        /\ pub[2] = "ok"
        /\ InQueue(2)

\* a publish call has completed with the loop not started
C24_WitnessUnstarted ==
    \E l \in Loops :
        /\ cons[l].pc = "unstarted"
        /\ pub[1] = "ok"
        /\ InQueue(1)

\* a publisher is suspended: the queue is open and full
C24_WitnessSuspended ==
    \E id \in EnvIds :
        /\ pub[id] = "suspended"
        /\ ~closed
        /\ Len(queue) = capacity

\* C25 as stated: no handler is invoked for an envelope if its subscribe call
\* began after the dispatch of that envelope had read the candidate names:
\* no task is started under a name on which a subscribe call has begun since
\* the names were read.
C25_LateSubscriberNotInvoked ==
    [][\A l \in Loops : \A t \in tasks' \ tasks :
            (t.st = "run" /\ t.env = cons[l].env.id) => t.name \notin cons[l].late]_vars

\* What the bus does: the candidate names are fixed when they are read, the
\* handler of each is fetched when it is visited: no task is started under
\* a name that was not among the names read, and a task runs the handler
\* that is in the map under its name at that moment.
C25_CandidateNamesFixedHandlersNot ==
    [][\A l \in Loops : \A t \in tasks' \ tasks :
            (t.st = "run" /\ t.env = cons[l].env.id) =>
                /\ t.name \in cons[l].todo
                /\ t.h = handlers[t.name]]_vars

\* the loop is about to visit a candidate name whose handler was replaced by
\* a subscribe call that began after the names were read, and the envelope
\* matches the new handler's filter
C25_Witness ==
    \E l \in Loops : \E n \in cons[l].late :
        /\ cons[l].pc = "spawn"
        /\ n \in cons[l].todo
        /\ ShouldSpawn(l, n)

\* C26 as stated: whenever no unsubscribe call is between its two steps,
\* every name in the index entry of any EventType has an entry in the
\* handler map.
C26_IndexWithinMapOutsideUnsubscribe ==
    (\A o \in regops : o.kind # "unsub") =>
        \A t \in EventTypes : \A n \in subscriptions[t] : handlers[n] # NoHandler

\* What holds: a name whose unsubscribe has returned, with no subscribe of
\* it running then or called since, is in no index entry.
C26_SweptNameNotIndexed ==
    \A n \in Names :
        gone[n] => \A t \in EventTypes : n \notin subscriptions[t]

\* no call is in progress, the index holds a name and the map does not
C26_Witness ==
    /\ regops = {}
    /\ \E t \in EventTypes : \E n \in subscriptions[t] : handlers[n] = NoHandler

\* C27 as stated: whenever no subscribe call is between its two steps, every
\* name in the handler map is in the index entry of every EventType its
\* filter implies, all six for an empty type set.
C27_MapIndexedOutsideSubscribe ==
    (\A o \in regops : o.kind # "sub") =>
        \A n \in Names :
            handlers[n] # NoHandler =>
                \A t \in EventTypes :
                    (handlers[n].filter.event_types = {}
                        \/ t \in handlers[n].filter.event_types)
                    => n \in subscriptions[t]

\* What holds: a name whose latest call was a subscribe that has returned
\* and overlapped no other call on the name is in the map and in the index
\* entry of every EventType its filter implies.
C27_MapIndexedUncontended ==
    \A n \in Names :
        clean[n] =>
            /\ handlers[n] # NoHandler
            /\ \A t \in EventTypes :
                    (handlers[n].filter.event_types = {}
                        \/ t \in handlers[n].filter.event_types)
                    => n \in subscriptions[t]

\* no call is in progress, the map holds a name and an index entry its
\* filter implies does not
C27_Witness ==
    /\ regops = {}
    /\ \E n \in Names :
            /\ handlers[n] # NoHandler
            /\ \E t \in IndexTypes(handlers[n].filter) : n \notin subscriptions[t]

\* C28 as stated: when a handler task ends after the deadline of its envelope
\* has elapsed and the loop has moved past the envelope, neither the success
\* counter nor the failure counter of its handler changes.
C28_LateCompletionNotCounted ==
    [][\A t \in tasks \ tasks' :
            outcome[t.env] = "timeout" =>
                /\ handler_success'[t.name] = handler_success[t.name]
                /\ handler_failure'[t.name] = handler_failure[t.name]]_vars

\* What the bus does: a task that ends after the deadline counts its result
\* as one that ends in time does: the deadline drops the JoinHandles, the
\* tasks run on with their clone of the metrics.
C28_LateCompletionCounted ==
    [][\A t \in tasks \ tasks' :
            /\ t.h.beh = "ok" =>
                    /\ handler_success'[t.name] = handler_success[t.name] + 1
                    /\ handler_failure'[t.name] = handler_failure[t.name]
            /\ t.h.beh = "err" =>
                    /\ handler_failure'[t.name] = handler_failure[t.name] + 1
                    /\ handler_success'[t.name] = handler_success[t.name]]_vars

\* the deadline of an envelope elapsed with its only task running; the task
\* has failed since, and the failure is counted under its handler's name
C28_Witness ==
    \E t \in tasks :
        /\ outcome[t.env] = "timeout"
        /\ TasksOf(t.env) = {t}
        /\ t.st = "done"
        /\ t.h.beh = "err"
        /\ tasks = {t}
        /\ handler_failure[t.name] = 1

\* the envelopes of EventType ty that were dequeued
DequeuedOfType(ty) ==
    {id \in EnvIds : DeqCount(id) > 0 /\ event_type(sent[id].event) = ty}

\* C29 as stated: the received counter of an EventType is the number of
\* dequeued envelopes of that type, an envelope being counted when it is
\* dequeued, before any of its handler tasks exists; and every dequeued
\* envelope that no loop is working on any more has exactly one of the two
\* records: the duration samples and the timeouts of an EventType add up to
\* the number of such envelopes of that type, a timeout being recorded only
\* where a task was unfinished at the deadline.
C29_ReceivedThenOneOutcome ==
    /\ \A ty \in EventTypes :
            /\ events_received[ty] = Cardinality(DequeuedOfType(ty))
            /\ events_processed[ty] + events_timeout[ty] =
                    Cardinality({id \in DequeuedOfType(ty) : ~InDispatch(id)})
            /\ events_processed[ty] =
                    Cardinality({id \in DequeuedOfType(ty) : outcome[id] = "processed"})
            /\ events_timeout[ty] =
                    Cardinality({id \in DequeuedOfType(ty) : outcome[id] = "timeout"})
    /\ \A t \in tasks : DeqCount(t.env) = 1
    /\ \A id \in EnvIds : DeqCount(id) <= 1

\* What holds with every plugin behaviour: the same, except for the envelope
\* on which a loop has ended by a panic of filter().
C29_OneOutcomeUnlessLoopPanicked ==
    /\ \A ty \in EventTypes :
            /\ events_received[ty] = Cardinality(DequeuedOfType(ty))
            /\ events_processed[ty] + events_timeout[ty] =
                    Cardinality({id \in DequeuedOfType(ty) :
                        /\ ~InDispatch(id)
                        /\ \A l \in Loops :
                                cons[l].pc = "panicked" => cons[l].env.id # id})
    /\ \A t \in tasks : DeqCount(t.env) = 1

\* an envelope for which no handler matched has its duration sample, and
\* another one has its timeout
C29_Witness ==
    \E i, j \in EnvIds :
        /\ outcome[i] = "processed"
        /\ TasksOf(i) = {}
        /\ outcome[j] = "timeout"
        /\ events_received["Push"] + events_received["Tag"] = 2

\* the loop has ended on a panic of filter() and its envelope has neither
\* record
C29_WitnessNeither ==
    \E l \in Loops :
        /\ cons[l].pc = "panicked"
        /\ outcome[cons[l].env.id] = "none"
        /\ events_received[event_type(cons[l].env.event)] = 1
        /\ events_processed[event_type(cons[l].env.event)] = 0
        /\ events_timeout[event_type(cons[l].env.event)] = 0

\* the loop has been started
Started == \A l \in Loops : cons[l].pc # "unstarted"

\* C30 as stated: with the loop started and the queue staying open, every
\* envelope in the queue is eventually dequeued and dispatched, whatever the
\* handlers of earlier envelopes do.
C30_EnqueuedEventuallyDispatched ==
    \A id \in EnvIds :
        (InQueue(id) /\ Started) ~> (DeqCount(id) = 1 \/ closed)

\* What holds: every envelope in the queue is eventually dequeued unless the
\* loop has ended by a panic of filter(); handlers that never return delay
\* it by the deadline of each earlier envelope at most.
C30_DispatchedUnlessLoopPanicked ==
    \A id \in EnvIds :
        (InQueue(id) /\ Started)
            ~> (DeqCount(id) = 1 \/ \E l \in Loops : cons[l].pc = "panicked")

\* the second envelope has been dequeued although the handler of the first
\* is still running: the deadline of the first has elapsed
C30_Witness ==
    /\ outcome[1] = "timeout"
    /\ \E t \in tasks : t.env = 1 /\ t.st = "run" /\ t.h.beh = "hang"
    /\ DeqCount(2) = 1

\* the loop has ended by a panic of filter() and an envelope is left in the
\* open queue
C30_WitnessStuck ==
    \E l \in Loops : \E id \in EnvIds :
        /\ cons[l].pc = "panicked"
        /\ ~closed
        /\ InQueue(id)

\* C31: the loop waits only after it has visited every candidate, and a
\* visit never waits for a task: while candidates are left the next visit is
\* possible, whatever the tasks spawned so far do; every handler task whose
\* handle returns can end, whatever the other tasks do; and once the fan-out
\* of an envelope is done, with no registry step since it was dequeued,
\* every registered handler whose filter matches has been invoked for it
\* (once), also when another handler of the envelope never returns.
C31_AllStartedBeforeWait ==
    /\ \A l \in Loops :
            cons[l].pc = "spawn" => \A n \in cons[l].todo : ENABLED Dispatch(l, n)
    /\ \A t \in tasks :
            (t.st = "run" /\ t.h.beh # "hang") => ENABLED TaskFinish(t)
    /\ \A l \in Loops :
            QuietFanOut(l) =>
                \A n \in Names :
                    (Registered(n) /\ matches_filter(handlers[n].filter, cons[l].env))
                        => Delivered(l, n) = 1

\* two handlers were invoked for one envelope: the handle of one never
\* returns and its task is running, the other has returned and is counted
C31_Witness ==
    \E l \in Loops : \E t, u \in tasks :
        /\ QuietFanOut(l)
        /\ t.env = cons[l].env.id /\ u.env = cons[l].env.id
        /\ t.name # u.name
        /\ t.h.beh = "hang" /\ t.st = "run"
        /\ u.h.beh = "ok" /\ u.st = "done"
        /\ handler_success[u.name] = 1

\* C32: a subscribe or unsubscribe call that waits for the index's write
\* lock can always take it, whatever the loop and the handler tasks are
\* doing, and it eventually returns; the loop can always read the candidate
\* names of the envelope it has dequeued, whatever calls are in progress,
\* and eventually does: the read lock and the write lock are each taken and
\* released within one step, never held during a handler invocation or
\* during the wait.
C32_RegistryNeverBlocked ==
    /\ [](\A o \in regops :
            IF o.kind = "sub" THEN ENABLED SubscribeIndex(o)
            ELSE ENABLED UnsubscribeSweep(o))
    /\ [](\A l \in Loops : cons[l].pc = "names" => ENABLED ReadNames(l))
    /\ \A k \in 1..MaxRegCalls :
            (\E o \in regops : o.op = k) ~> (\A o \in regops : o.op # k)
    /\ \A l \in Loops : (cons[l].pc = "names") ~> (cons[l].pc # "names")

\* an unsubscribe has been called and has returned while the loop was waiting
\* for the only handler task of its envelope, whose handle never returns:
\* the task's name is no longer in the map
C32_Witness ==
    \E l \in Loops : \E t \in tasks :
        /\ Waiting(l)
        /\ TasksOf(cons[l].env.id) = {t}
        /\ t.st = "run" /\ t.h.beh = "hang"
        /\ handlers[t.name] = NoHandler
        /\ regops = {}

\* the variants with a branch, and the field that holds it
BranchOf(e) ==
    IF e.variant = "PullRequestOpened" THEN e.from_branch ELSE e.branch

HasBranch(e) == e.variant \in {"Push", "CiRunStarted", "PullRequestOpened"}

\* the three checks, stated on the fields of the event
MatchRule(filter, e) ==
    /\ filter.event_types = {} \/ ClassOf[e.variant] \in filter.event_types
    /\ filter.repositories = {} \/ RepositoryName(e) \in filter.repositories
    /\ \/ filter.branches = {}
       \/ ~HasBranch(e)
       \/ \E pattern \in filter.branches : GlobRule(pattern, BranchOf(e))

\* C33: matches_filter is the conjunction of the three checks: the type set
\* is empty or holds the event's class; the repository set is empty or holds
\* the event's repository (every variant has one); the branch set is empty,
\* or the event has no branch, or its branch matches one of the patterns.
\* For every dequeued envelope and every handler in the map the two agree,
\* and once the fan-out of the envelope is done, with no registry step since
\* it was dequeued, a registered handler has been invoked for it (once) if
\* and only if the three checks pass.
C33_MatchesIsConjunction ==
    \A l \in Loops :
        cons[l].env # NoEnvelope =>
            \A n \in Names :
                handlers[n] # NoHandler =>
                    LET f == handlers[n].filter
                        e == cons[l].env.event
                    IN  /\ matches_filter(f, cons[l].env) = MatchRule(f, e)
                        /\ extract_repository(e) # None
                        /\ (QuietFanOut(l) /\ Registered(n)) =>
                                Delivered(l, n) = IF MatchRule(f, e) THEN 1 ELSE 0

\* an event that passes the type check and the branch check of a filter with
\* all three sets and is of another repository was not delivered
C33_Witness ==
    \E l \in Loops : \E n \in Names :
        /\ QuietFanOut(l)
        /\ Registered(n)
        /\ handlers[n].filter =
                MkFilter({"Push"}, {"important-repo"}, {BranchMain, PatternFeature})
        /\ cons[l].env.event.variant = "Push"
        /\ cons[l].env.event.branch = BranchMain
        /\ cons[l].env.event.repository = "other-repo"
        /\ Delivered(l, n) = 0

\* an event that passes all three checks of a filter with all three sets was
\* delivered
C33_WitnessDelivered ==
    \E l \in Loops : \E n \in Names :
        /\ QuietFanOut(l)
        /\ Registered(n)
        /\ handlers[n].filter =
                MkFilter({"PullRequest", "CiRun"}, {"important-repo"}, {BranchMain})
        /\ cons[l].env.event.variant = "CiRunStarted"
        /\ Delivered(l, n) = 1

\* C34: extract_branch gives the branch field of a Push and of a
\* CiRunStarted, the from_branch field of a PullRequestOpened and nothing
\* for the ten other variants; once the fan-out of an envelope is done, with
\* no registry step since it was dequeued, a handler registered with a
\* filter that has only a branch pattern set has been invoked for it (once)
\* if and only if the event is of one of the ten variants without a branch
\* or that field matches one of the patterns, whatever to_branch holds.
C34_BranchFieldPerVariant ==
    \A l \in Loops :
        cons[l].env # NoEnvelope =>
            LET e == cons[l].env.event
            IN  /\ extract_branch(e) =
                        IF e.variant \in {"Push", "CiRunStarted"} THEN <<e.branch>>
                        ELSE IF e.variant = "PullRequestOpened" THEN <<e.from_branch>>
                        ELSE <<>>
                /\ QuietFanOut(l) =>
                        \A n \in Names :
                            (Registered(n) /\ BranchOnly(handlers[n].filter)) =>
                                Delivered(l, n) =
                                    IF \/ ~HasBranch(e)
                                       \/ \E pattern \in handlers[n].filter.branches :
                                                GlobRule(pattern, BranchOf(e))
                                    THEN 1 ELSE 0

\* a PullRequestOpened from the branch "f/a" to the branch "main" was not
\* delivered to the handler whose only branch pattern is "main"
C34_Witness ==
    \E l \in Loops : \E n \in Names :
        /\ QuietFanOut(l)
        /\ Registered(n)
        /\ handlers[n].filter = MkFilter({}, {}, {BranchMain})
        /\ cons[l].env.event.variant = "PullRequestOpened"
        /\ cons[l].env.event.from_branch = BranchFeatureAuth
        /\ cons[l].env.event.to_branch = BranchMain
        /\ Delivered(l, n) = 0

\* a CiRunStarted on the branch "main" was delivered to that handler
C34_WitnessCiRun ==
    \E l \in Loops : \E n \in Names :
        /\ QuietFanOut(l)
        /\ Registered(n)
        /\ handlers[n].filter = MkFilter({}, {}, {BranchMain})
        /\ cons[l].env.event.variant = "CiRunStarted"
        /\ cons[l].env.event.branch = BranchMain
        /\ Delivered(l, n) = 1

\* C35: the first step of unsubscribe(name) removes the entry of name from
\* the handler map and the second removes name from every index entry;
\* neither changes the entry of another name in the map, the membership of
\* another name in an index entry, the queue, the loops or the tasks; and
\* when no other call on the name overlapped the call, name is in neither
\* the map nor any index entry when it returns.
C35_UnsubscribeFrame ==
    [][/\ \A o \in regops' :
            (o.kind = "unsub" /\ nreg' = nreg + 1 /\ o.op = nreg') =>
                /\ handlers' = [handlers EXCEPT ![o.name] = NoHandler]
                /\ UNCHANGED <<subscriptions, capacity, queue, closed, pub, cons,
                               tasks, metrics>>
       /\ \A o \in regops :
            (o.kind = "unsub" /\ \A x \in regops' : x.op # o.op) =>
                /\ subscriptions' =
                        [t \in EventTypes |-> subscriptions[t] \ {o.name}]
                /\ UNCHANGED <<handlers, capacity, queue, closed, pub, cons,
                               tasks, metrics>>
                /\ ~o.race =>
                        /\ handlers'[o.name] = NoHandler
                        /\ \A t \in EventTypes : o.name \notin subscriptions'[t]]_vars

\* one of two registered names has been unsubscribed, with no call
\* overlapping: it is in neither the map nor the index, the other name is in
\* both, and the envelope published before is in the queue
C35_Witness ==
    \E n, m \in Names :
        /\ n # m
        /\ regops = {}
        /\ gone[n] /\ unsubs[n] = 1 /\ subscribed[n] # NoHandler
        /\ handlers[n] = NoHandler
        /\ \A t \in EventTypes : n \notin subscriptions[t] /\ m \in subscriptions[t]
        /\ Registered(m)
        /\ queue # <<>>

\* C36: what decides is the registry as it is when the envelope is dequeued
\* and dispatched: once the fan-out of an envelope is done, with no registry
\* step since it was dequeued, a name has been invoked for it (once) if and
\* only if the name is in the map and in the index entry of the envelope's
\* type and the envelope matches its filter, whenever the envelope was
\* published; so a name whose unsubscribe has returned has not been invoked,
\* and a registered name whose filter matches has been.
C36_DecidedAtDequeue ==
    \A l \in Loops :
        QuietFanOut(l) =>
            \A n \in Names :
                /\ Delivered(l, n) =
                        IF /\ handlers[n] # NoHandler
                           /\ n \in subscriptions[event_type(cons[l].env.event)]
                           /\ matches_filter(handlers[n].filter, cons[l].env)
                        THEN 1 ELSE 0
                /\ gone[n] => Delivered(l, n) = 0
                /\ (Registered(n) /\ matches_filter(handlers[n].filter, cons[l].env))
                        => Delivered(l, n) = 1

\* the first envelope, published before the subscribe call returned and
\* dequeued after, was delivered to the subscribed handler
C36_Witness ==
    \E l \in Loops :
        /\ QuietFanOut(l)
        /\ cons[l].env.id = 1
        /\ Registered("a")
        /\ Delivered(l, "a") = 1

\* the first envelope, published before the unsubscribe call returned and
\* dequeued after, was not delivered to the handler that was subscribed and
\* whose filter it matches
C36_WitnessUnsubscribed ==
    \E l \in Loops :
        /\ QuietFanOut(l)
        /\ cons[l].env.id = 1
        /\ gone["a"]
        /\ subscribed["a"] # NoHandler
        /\ matches_filter(subscribed["a"].filter, cons[l].env)
        /\ Delivered(l, "a") = 0

\* C37: a subscribe adds the name to the index entries of the new filter's
\* types and removes it from none, so the name stays in the entry of a type
\* that only the replaced handler's filter had; no task ever runs a handler
\* for an envelope of a type that its non-empty type set lacks; and once the
\* fan-out of an envelope of such a type is done, with no registry step
\* since it was dequeued, the registered handler has not been invoked for
\* it although its name was a candidate.
C37_StaleIndexEntryHarmless ==
    /\ \A t \in tasks :
            t.h.filter.event_types # {} =>
                event_type(sent[t.env].event) \in t.h.filter.event_types
    /\ \A l \in Loops :
            QuietFanOut(l) =>
                \A n \in Names :
                    (/\ Registered(n)
                     /\ handlers[n].filter.event_types # {}
                     /\ event_type(cons[l].env.event)
                            \notin handlers[n].filter.event_types)
                        => Delivered(l, n) = 0

\* a name registered for Push was registered again for Tag; it is still in
\* the Push entry of the index, and the Push envelope was not delivered to it
C37_Witness ==
    \E l \in Loops : \E n \in Names :
        /\ QuietFanOut(l)
        /\ Registered(n)
        /\ handlers[n].filter.event_types = {"Tag"}
        /\ n \in subscriptions["Push"]
        /\ n \in subscriptions["Tag"]
        /\ event_type(cons[l].env.event) = "Push"
        /\ Delivered(l, n) = 0

C38_WitnessQueued ==
    /\ Len(queue) = 2
    /\ queue[1].metadata.priority = EventPriority.Low
    /\ queue[2].metadata.priority = EventPriority.Critical
    /\ \E l \in Loops : ENABLED Recv(l)

\* C39: with two consumer loops started on the same bus, every envelope is
\* dequeued at most once, no two loops hold the same envelope, no handler
\* name is invoked more than once for an envelope, and once the fan-out of
\* an envelope is done in either loop, with no registry step since it was
\* dequeued, each registered handler whose filter matches it has been
\* invoked for it exactly once.
C39_OneLoopPerEnvelope ==
    /\ \A id \in EnvIds : DeqCount(id) <= 1
    /\ \A l, m \in AllLoops :
            (l # m /\ cons[l].env # NoEnvelope) => cons[l].env.id # cons[m].env.id
    /\ \A id \in EnvIds : \A n \in Names : invoked[id][n] <= 1
    /\ \A l \in AllLoops :
            QuietFanOut(l) =>
                \A n \in Names :
                    (Registered(n) /\ matches_filter(handlers[n].filter, cons[l].env))
                        => Delivered(l, n) = 1

\* both loops are dispatching, each its own envelope; the first loop's
\* fan-out is done and invoked the registered matching handler once, and
\* that handler has not been invoked for the other loop's envelope yet
C39_Witness ==
    \E l \in Loops, m \in SecondLoops : \E n \in Names :
        /\ QuietFanOut(l)
        /\ cons[m].pc \in {"names", "spawn"}
        /\ cons[m].env.id # cons[l].env.id
        /\ Registered(n)
        /\ matches_filter(handlers[n].filter, cons[l].env)
        /\ matches_filter(handlers[n].filter, cons[m].env)
        /\ Delivered(l, n) = 1
        /\ Delivered(m, n) = 0

\* every published envelope was dequeued, once, and each of the two loops
\* dequeued at least one of them
C39_WitnessShared ==
    /\ Len(deqOrder) = MaxPublish
    /\ \A id \in EnvIds : DeqCount(id) = 1
    /\ \E l \in Loops, m \in SecondLoops :
            /\ cons[l].env # NoEnvelope
            /\ cons[m].env # NoEnvelope
            /\ events_received["Push"] + events_received["Tag"] = MaxPublish
====
